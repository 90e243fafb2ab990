------------------------------ MODULE MCTracing ------------------------------
(* An instance of Tracing for TLC: one nanosecond is a third of the unit.   *)
EXTENDS Tracing, TLC

CONSTANTS ta, tb, ka, kb

(* p and q start together; p changes later, and q is the longest there may  *)
(* be.                                                                      *)
SpanOf(name, start, end, error) ==
    [span |-> name, start |-> start, end |-> end, error |-> error,
     traced |-> TRUE, identified |-> TRUE, named |-> TRUE]
P == SpanOf("p", 3, 4, TRUE)
PLater == SpanOf("p", 6, 7, FALSE)
Q == SpanOf("q", 3, 11, FALSE)
R == SpanOf("r", 0, 0, TRUE)
TooLong == SpanOf("r", 0, 9, FALSE)
Reversed == SpanOf("r", 1, 0, FALSE)
Unnamed == [R EXCEPT !.named = FALSE]
Untraced == [R EXCEPT !.traced = FALSE]
Unidentified == [R EXCEPT !.identified = FALSE]

SomeBatches == {<<P, TooLong, Q>>, <<Reversed, R, Unnamed>>, <<Untraced, PLater, Unidentified>>}

Keys(mapping, global) ==
    [mapping |-> mapping, global |-> global, tenant |-> None, production |-> TRUE]

Symmetry == Permutations(Exporter)

SomeDeployments ==
    { [Keys(None, None) EXCEPT !.production = FALSE],         \* nothing configured
      Keys(None, None),
      Keys({<<ta, ka>>, <<tb, kb>>}, None),                   \* a key for each tenant
      Keys({<<ta, ka>>}, kb),                                 \* for one, and a global key
      Keys({}, None),                                         \* entries nobody can read
      [Keys(None, ka) EXCEPT !.tenant = ta],                  \* a single tenant
      [Keys({<<ta, ka>>, <<tb, kb>>}, kb) EXCEPT !.tenant = ta],
      [Keys(None, ka) EXCEPT !.tenant = Malformed] }
=============================================================================
