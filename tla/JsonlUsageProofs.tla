-------------------------- MODULE JsonlUsageProofs ---------------------------
(***************************************************************************)
(* Proofs about JsonlUsage for every set of tenants, any finite number of  *)
(* handlers and every bound.                                               *)
(***************************************************************************)
EXTENDS JsonlUsage, JsonlProofs

(* What main and usage load is a number of units for each tenant.           *)
LEMMA LoadType ==
    ASSUME file \in File(Tenant), Readable(file)
    PROVE  Load \in [Tenant -> Nat]
<1> DEFINE S(t) == {i \in DOMAIN Documents(file) : Documents(file)[i] = t}
<1>1. DOMAIN Documents(file) = 1 .. Len(Lines(file)) /\ Len(Lines(file)) \in Int
  BY ReadableLines, FileLines
<1>2. IsFiniteSet(1 .. Len(Lines(file)))
  BY <1>1, FS_Interval
<1>3. \A t \in Tenant : Cardinality(S(t)) \in Nat
  <2> TAKE t \in Tenant
  <2>1. IsFiniteSet(S(t))
    BY <1>1, <1>2, FS_Subset
  <2> QED
    BY <2>1, FS_CardinalityType
<1> QED
  BY <1>3 DEF Load

(* Every variable keeps its type, and a handler reports for a tenant        *)
(* exactly while it is at work.                                             *)
THEOREM TypeCorrect == Spec => []TypeOK
<1>1. Init => TypeOK
  <2> SUFFICES ASSUME Init PROVE TypeOK
    OBVIOUS
  <2>1. file \in File(Tenant)
    BY EmptyFileType DEF Init
  <2>2. /\ ledger \in [Tenant -> Nat] /\ reported \in [Tenant -> Nat]
        /\ acknowledged \in [Tenant -> Nat] /\ answered \in [Tenant -> Nat]
    BY DEF Init, NoUnits
  <2>3. /\ pc \in [Handler -> {"idle", "head", "tail", "newline", "record"}]
        /\ tenant \in [Handler -> Tenant \cup {NoTenant}]
        /\ \A h \in Handler : tenant[h] = NoTenant <=> pc[h] = "idle"
    BY DEF Init
  <2>4. up = TRUE /\ overlapped \in BOOLEAN /\ torn \in BOOLEAN /\ faults \in Nat
    BY DEF Init
  <2> QED
    BY <2>1, <2>2, <2>3, <2>4 DEF TypeOK
<1>2. TypeOK /\ [Next]_vars => TypeOK'
  <2> SUFFICES ASSUME TypeOK, [Next]_vars PROVE TypeOK'
    OBVIOUS
  <2> USE DEF TypeOK
  <2>1. ASSUME NEW h \in Handler, NEW t \in Tenant, Report(h, t) PROVE TypeOK'
    <3>1. t # NoTenant
      BY TenantAssumption
    <3>2. reported' \in [Tenant -> Nat]
      <4>1. reported \in [Tenant -> Nat]
        OBVIOUS
      <4>2. reported' = [reported EXCEPT ![t] = @ + 1]
        BY <2>1 DEF Report
      <4> QED
        BY <4>1, <4>2
    <3>3. overlapped' \in BOOLEAN
      BY <2>1 DEF Report
    <3> QED
      BY <2>1, <3>1, <3>2, <3>3 DEF Report, Opened
  <2>2. ASSUME NEW h \in Handler, WriteHead(h) PROVE TypeOK'
    <3>1. tenant[h] \in Tenant
      BY <2>2 DEF WriteHead
    <3>2. file' \in File(Tenant)
      BY <2>2, <3>1, PartsArePieces, WrittenType DEF WriteHead
    <3> QED
      BY <2>2, <3>2 DEF WriteHead, history
  <2>3. ASSUME NEW h \in Handler, WriteTail(h) PROVE TypeOK'
    <3>1. tenant[h] \in Tenant
      BY <2>3 DEF WriteTail
    <3>2. file' \in File(Tenant)
      BY <2>3, <3>1, PartsArePieces, WrittenType DEF WriteTail
    <3> QED
      BY <2>3, <3>2 DEF WriteTail, history
  <2>4. ASSUME NEW h \in Handler, WriteNewline(h) PROVE TypeOK'
    <3>1. file' \in File(Tenant)
      BY <2>4, TerminatedType DEF WriteNewline
    <3> QED
      BY <2>4, <3>1 DEF WriteNewline, history
  <2>5. ASSUME NEW h \in Handler, Record(h) PROVE TypeOK'
    BY <2>5 DEF Record, Done
  <2>6. ASSUME NEW h \in Handler, WriteError(h) PROVE TypeOK'
    <3>1. torn' \in BOOLEAN
      BY <2>6 DEF WriteError
    <3> QED
      BY <2>6, <3>1 DEF WriteError, Fault, Done
  <2>7. ASSUME NEW t \in Tenant, Usage(t) PROVE TypeOK'
    <3>1. Load[t] \in Nat
      BY <2>7, LoadType DEF Usage
    <3> QED
      BY <2>7, <3>1 DEF Usage
  <2>8. ASSUME Restart PROVE TypeOK'
    <3>1. ledger' \in [Tenant -> Nat]
      <4>1. CASE Readable(file)
        BY <2>8, <4>1, LoadType DEF Restart
      <4>2. CASE ~Readable(file)
        BY <2>8, <4>2 DEF Restart, NoUnits
      <4> QED
        BY <4>1, <4>2
    <3>2. up' \in BOOLEAN /\ torn' \in BOOLEAN
      BY <2>8 DEF Restart, Readable
    <3> QED
      BY <2>8, <3>1, <3>2 DEF Restart, Fault
  <2>9. CASE UNCHANGED vars
    BY <2>9 DEF vars, history
  <2> QED
    BY <2>1, <2>2, <2>3, <2>4, <2>5, <2>6, <2>7, <2>8, <2>9 DEF Next
<1> QED
  BY <1>1, <1>2, PTL DEF Spec

-----------------------------------------------------------------------------
(* Units are counted along their way: reported, begun in the file, whole in *)
(* the ledger.                                                              *)
Units(t) == Cardinality(Heads(file, t))

Starting(t) == {h \in Handler : pc[h] = "head" /\ tenant[h] = t}
Writing(t) == {h \in Handler : pc[h] \in {"tail", "newline", "record"} /\ tenant[h] = t}

Accounted(t) ==
    /\ IsFiniteSet(Heads(file, t))
    /\ Units(t) + Cardinality(Starting(t)) <= reported[t]
    /\ ledger[t] + Cardinality(Writing(t)) <= Units(t)
    /\ up => acknowledged[t] <= ledger[t]
    /\ answered[t] <= Units(t)

UnitsInv == \A t \in Tenant : Accounted(t)

(* What is counted is finite.                                               *)
LEMMA UnitsType ==
    ASSUME TypeOK, UnitsInv, NEW t \in Tenant
    PROVE  /\ Units(t) \in Nat
           /\ IsFiniteSet(Starting(t)) /\ Cardinality(Starting(t)) \in Nat
           /\ IsFiniteSet(Writing(t)) /\ Cardinality(Writing(t)) \in Nat
           /\ {reported[t], ledger[t], acknowledged[t], answered[t]} \subseteq Nat
<1>1. IsFiniteSet(Starting(t)) /\ IsFiniteSet(Writing(t))
  BY HandlerAssumption, FS_Subset DEF Starting, Writing
<1>2. IsFiniteSet(Heads(file, t))
  BY DEF UnitsInv, Accounted
<1>3. {reported[t], ledger[t], acknowledged[t], answered[t]} \subseteq Nat
  BY DEF TypeOK
<1> QED
  BY <1>1, <1>2, <1>3, FS_CardinalityType DEF Units

(* Of a file that can be read, load counts every unit begun.                *)
LEMMA LoadIsUnits ==
    ASSUME TypeOK, UnitsInv, Readable(file), NEW t \in Tenant
    PROVE  Load[t] = Units(t)
<1>1. IsFiniteSet(Heads(file, t)) /\ file \in File(Tenant)
  BY DEF UnitsInv, Accounted, TypeOK
<1> QED
  BY <1>1, ReadableHeads DEF Load, Units

(* Nothing has been reported yet.                                           *)
LEMMA UnitsInitially == Init => UnitsInv
<1> SUFFICES ASSUME Init, NEW t \in Tenant PROVE Accounted(t)
  BY DEF UnitsInv
<1>1. Heads(file, t) = {} /\ Starting(t) = {} /\ Writing(t) = {}
  BY NoHeads DEF Init, Starting, Writing
<1> QED
  BY <1>1, FS_EmptySet DEF Init, NoUnits, Units, Accounted

(* Each action moves a unit one stage on, or drops it from where it was.    *)
LEMMA UnitsKept == TypeOK /\ TypeOK' /\ UnitsInv /\ [Next]_vars => UnitsInv'
<1> SUFFICES ASSUME TypeOK, TypeOK', UnitsInv, [Next]_vars, NEW u \in Tenant
             PROVE  Accounted(u)'
  BY DEF UnitsInv
<1> DEFINE n == Units(u)  s == Cardinality(Starting(u))  w == Cardinality(Writing(u))
<1>a. Accounted(u)
  BY DEF UnitsInv
<1>b. /\ n \in Nat /\ s \in Nat /\ w \in Nat
      /\ IsFiniteSet(Starting(u)) /\ IsFiniteSet(Writing(u))
      /\ reported[u] \in Nat /\ ledger[u] \in Nat /\ acknowledged[u] \in Nat /\ answered[u] \in Nat
  BY UnitsType
<1>1. ASSUME NEW h \in Handler, NEW t \in Tenant, Report(h, t) PROVE Accounted(u)'
  <2>0. /\ pc[h] = "idle" /\ pc' = [pc EXCEPT ![h] = "head"] /\ tenant' = [tenant EXCEPT ![h] = t]
        /\ pc \in [Handler -> {"idle", "head", "tail", "newline", "record"}]
        /\ tenant \in [Handler -> Tenant \cup {NoTenant}]
    BY <1>1 DEF Report, TypeOK
  <2>1. /\ Writing(u)' = Writing(u)
        /\ t = u => Starting(u)' = Starting(u) \cup {h}
        /\ t # u => Starting(u)' = Starting(u)
        /\ h \notin Starting(u)
    BY <2>0 DEF Starting, Writing
  <2>2. /\ reported' = [reported EXCEPT ![t] = @ + 1]
        /\ UNCHANGED <<up, ledger, acknowledged, answered>> /\ file' = file
    BY <1>1 DEF Report, Opened
  <2>3. /\ t = u => Cardinality(Starting(u))' = s + 1
        /\ t # u => Cardinality(Starting(u))' = s
    BY <1>b, <2>1, FS_AddElement
  <2>4. reported'[u] = IF t = u THEN reported[u] + 1 ELSE reported[u]
    BY <2>2 DEF TypeOK
  <2>5. Heads(file, u)' = Heads(file, u) /\ Units(u)' = Units(u) /\ Cardinality(Writing(u))' = w
    BY <2>1, <2>2 DEF Units
  <2> QED
    BY <1>a, <1>b, <2>2, <2>3, <2>4, <2>5 DEF Accounted
<1>2. ASSUME NEW h \in Handler, WriteHead(h) PROVE Accounted(u)'
  <2>1. tenant[h] \in Tenant /\ file \in File(Tenant)
    BY <1>2 DEF WriteHead, TypeOK
  <2>2. /\ FirstPart(tenant[h]) \in Piece(Tenant)
        /\ (FirstPart(tenant[h]) = FirstPart(u)) <=> (tenant[h] = u)
    BY <2>1, PartsArePieces DEF FirstPart
  <2>3. /\ tenant[h] = u => Heads(file, u)' = Heads(file, u) \cup {NextCell(file)}
        /\ tenant[h] # u => Heads(file, u)' = Heads(file, u)
        /\ NextCell(file) \notin Heads(file, u)
    <3>1. file' = Written(file, FirstPart(tenant[h]))
      BY <1>2 DEF WriteHead
    <3>2. /\ Heads(Written(file, FirstPart(tenant[h])), u) =
                IF FirstPart(tenant[h]) = FirstPart(u) THEN Heads(file, u) \cup {NextCell(file)}
                ELSE Heads(file, u)
          /\ NextCell(file) \notin Heads(file, u)
      BY <2>1, <2>2, WrittenHeads
    <3>3. Heads(file, u)' = Heads(Written(file, FirstPart(tenant[h])), u)
      BY <3>1
    <3> QED
      BY <2>2, <3>2, <3>3
  <2>4. /\ IsFiniteSet(Heads(file, u)')
        /\ tenant[h] = u => Units(u)' = n + 1
        /\ tenant[h] # u => Units(u)' = n
    BY <1>a, <2>3, FS_AddElement DEF Units, Accounted
  <2>5. /\ Starting(u)' = Starting(u) \ {h} /\ (h \in Starting(u) <=> tenant[h] = u)
        /\ tenant[h] = u => Writing(u)' = Writing(u) \cup {h}
        /\ tenant[h] # u => Writing(u)' = Writing(u)
        /\ h \notin Writing(u)
    BY <1>2 DEF WriteHead, Starting, Writing, TypeOK
  <2>6. /\ tenant[h] = u => Cardinality(Starting(u))' = s - 1 /\ Cardinality(Writing(u))' = w + 1
        /\ tenant[h] # u => Cardinality(Starting(u))' = s /\ Cardinality(Writing(u))' = w
    <3>1. Cardinality(Starting(u))' = IF h \in Starting(u) THEN s - 1 ELSE s
      BY <1>b, <2>5, FS_RemoveElement
    <3>2. tenant[h] = u => Cardinality(Writing(u))' = w + 1
      BY <1>b, <2>5, FS_AddElement
    <3> QED
      BY <2>5, <3>1, <3>2
  <2>7. UNCHANGED <<up, ledger, reported, acknowledged, answered>>
    BY <1>2 DEF WriteHead, history
  <2> QED
    BY <1>a, <1>b, <2>4, <2>6, <2>7 DEF Accounted
<1>3. ASSUME NEW h \in Handler, WriteTail(h) \/ WriteNewline(h) PROVE Accounted(u)'
  <2>1. file \in File(Tenant) /\ (pc[h] = "tail" => tenant[h] \in Tenant)
    BY DEF TypeOK
  <2>2. Heads(file, u)' = Heads(file, u)
    <3>1. CASE WriteTail(h)
      <4>1. SecondPart(tenant[h]) \in Piece(Tenant) /\ SecondPart(tenant[h]) # FirstPart(u)
        BY <2>1, <3>1, PartsArePieces DEF WriteTail, FirstPart, SecondPart
      <4> QED
        BY <2>1, <3>1, <4>1, WrittenHeads DEF WriteTail
    <3>2. CASE WriteNewline(h)
      BY <2>1, <3>2, TerminatedHeads DEF WriteNewline
    <3> QED
      BY <1>3, <3>1, <3>2
  <2>3. Starting(u)' = Starting(u) /\ Writing(u)' = Writing(u)
    BY <1>3 DEF WriteTail, WriteNewline, Starting, Writing, TypeOK
  <2>4. UNCHANGED <<up, ledger, reported, acknowledged, answered>>
    BY <1>3 DEF WriteTail, WriteNewline, history
  <2> QED
    BY <1>a, <2>2, <2>3, <2>4 DEF Accounted, Units
<1>4. ASSUME NEW h \in Handler, Record(h) PROVE Accounted(u)'
  <2>1. /\ Starting(u)' = Starting(u)
        /\ Writing(u)' = Writing(u) \ {h} /\ (h \in Writing(u) <=> tenant[h] = u)
    BY <1>4, TenantAssumption DEF Record, Done, Starting, Writing, TypeOK
  <2>2. Cardinality(Starting(u))' = s /\ Cardinality(Writing(u))' = IF tenant[h] = u THEN w - 1 ELSE w
    BY <1>b, <2>1, FS_RemoveElement
  <2>3. /\ ledger'[u] = IF tenant[h] = u THEN ledger[u] + 1 ELSE ledger[u]
        /\ acknowledged'[u] = IF tenant[h] = u THEN acknowledged[u] + 1 ELSE acknowledged[u]
        /\ UNCHANGED <<file, up, reported, answered>>
    BY <1>4 DEF Record, TypeOK
  <2>4. Heads(file, u)' = Heads(file, u) /\ Units(u)' = n
    BY <2>3 DEF Units
  <2> QED
    BY <1>a, <1>b, <2>2, <2>3, <2>4 DEF Accounted
<1>5. ASSUME NEW h \in Handler, WriteError(h) PROVE Accounted(u)'
  <2>1. Starting(u)' = Starting(u) \ {h} /\ Writing(u)' = Writing(u) \ {h}
    BY <1>5, TenantAssumption DEF WriteError, Done, Starting, Writing, TypeOK
  <2>2. /\ Cardinality(Starting(u))' \in Nat /\ Cardinality(Starting(u))' <= s
        /\ Cardinality(Writing(u))' \in Nat /\ Cardinality(Writing(u))' <= w
    <3>1. /\ Cardinality(Starting(u))' = IF h \in Starting(u) THEN s - 1 ELSE s
          /\ Cardinality(Writing(u))' = IF h \in Writing(u) THEN w - 1 ELSE w
      BY <1>b, <2>1, FS_RemoveElement
    <3>2. Cardinality(Starting(u))' \in Nat /\ Cardinality(Writing(u))' \in Nat
      BY <1>b, <2>1, FS_RemoveElement, FS_CardinalityType
    <3> QED
      BY <1>b, <3>1, <3>2
  <2>3. UNCHANGED <<file, up, ledger, reported, acknowledged, answered>>
    BY <1>5 DEF WriteError
  <2>4. Heads(file, u)' = Heads(file, u) /\ Units(u)' = n
    BY <2>3 DEF Units
  <2> QED
    BY <1>a, <1>b, <2>2, <2>3, <2>4 DEF Accounted
<1>6. ASSUME NEW t \in Tenant, Usage(t) PROVE Accounted(u)'
  <2>1. answered' = [answered EXCEPT ![t] = Load[t]] /\ Load[t] = Units(t)
    BY <1>6, LoadIsUnits DEF Usage
  <2>2. UNCHANGED <<file, up, ledger, pc, tenant, reported, acknowledged>>
    BY <1>6 DEF Usage
  <2>3. /\ Heads(file, u)' = Heads(file, u) /\ Units(u)' = n
        /\ Starting(u)' = Starting(u) /\ Writing(u)' = Writing(u)
    BY <2>2 DEF Units, Starting, Writing
  <2>4. answered'[u] <= n
    BY <1>a, <1>b, <2>1 DEF Accounted, TypeOK
  <2> QED
    BY <1>a, <2>2, <2>3, <2>4 DEF Accounted
<1>7. ASSUME Restart PROVE Accounted(u)'
  <2>1. Starting(u)' = {} /\ Writing(u)' = {}
    BY <1>7 DEF Restart, Starting, Writing
  <2>2. Cardinality(Starting(u))' = 0 /\ Cardinality(Writing(u))' = 0
    BY <2>1, FS_EmptySet
  <2>3. /\ up /\ up' = Readable(file) /\ ledger' = IF Readable(file) THEN Load ELSE NoUnits
        /\ UNCHANGED <<file, reported, acknowledged, answered>>
    BY <1>7 DEF Restart
  <2>4. Heads(file, u)' = Heads(file, u) /\ Units(u)' = n
    BY <2>3 DEF Units
  <2>5. ledger'[u] = IF Readable(file) THEN n ELSE 0
    BY <2>3, LoadIsUnits DEF NoUnits
  <2> QED
    BY <1>a, <1>b, <2>2, <2>3, <2>4, <2>5 DEF Accounted
<1>8. CASE UNCHANGED vars
  <2>1. UNCHANGED <<file, up, ledger, pc, tenant, reported, acknowledged, answered>>
    BY <1>8 DEF vars, history
  <2>2. /\ Heads(file, u)' = Heads(file, u) /\ Units(u)' = n
        /\ Starting(u)' = Starting(u) /\ Writing(u)' = Writing(u)
    BY <2>1 DEF Units, Starting, Writing
  <2> QED
    BY <1>a, <2>1, <2>2 DEF Accounted
<1> QED
  BY <1>1, <1>2, <1>3, <1>4, <1>5, <1>6, <1>7, <1>8 DEF Next

(* So every unit is accounted for in every state.                           *)
LEMMA UnitsAlways == Spec => []UnitsInv
BY UnitsInitially, UnitsKept, TypeCorrect, PTL DEF Spec

(* However appends interleave, fail or are cut off, a ledger in use has all *)
(* that was acknowledged and nothing that is not in the file, as long as    *)
(* the file can be read.                                                    *)
THEOREM LedgerWithinFileHolds == Spec => []LedgerWithinFile
<1>1. TypeOK /\ UnitsInv => LedgerWithinFile
  <2> SUFFICES ASSUME TypeOK, UnitsInv, up, Readable(file), NEW t \in Tenant
               PROVE  /\ acknowledged[t] <= ledger[t]
                      /\ ledger[t] <= Load[t]
                      /\ Load[t] <= reported[t]
    BY DEF LedgerWithinFile
  <2>1. Accounted(t) /\ Load[t] = Units(t)
    BY LoadIsUnits DEF UnitsInv
  <2> QED
    BY <2>1, UnitsType DEF Accounted
<1> QED
  BY <1>1, TypeCorrect, UnitsAlways, PTL

(* No answer to a request for usage is below an earlier one: what a file    *)
(* that can be read counts is never less than what it counted before.       *)
THEOREM UsageNeverShrinksHolds == Spec => UsageNeverShrinks
<1>1. TypeOK /\ UnitsInv /\ [Next]_vars => [\A t \in Tenant : answered'[t] >= answered[t]]_vars
  <2> SUFFICES ASSUME TypeOK, UnitsInv, Next, NEW t \in Tenant PROVE answered'[t] >= answered[t]
    BY DEF vars
  <2>0. answered \in [Tenant -> Nat] /\ Accounted(t)
    BY DEF TypeOK, UnitsInv
  <2>1. ASSUME NEW v \in Tenant, Usage(v) PROVE answered'[t] >= answered[t]
    <3>1. answered' = [answered EXCEPT ![v] = Load[v]] /\ Load[v] = Units(v)
      BY <2>1, LoadIsUnits DEF Usage
    <3> QED
      BY <2>0, <3>1, UnitsType DEF Accounted
  <2>2. ASSUME UNCHANGED answered PROVE answered'[t] >= answered[t]
    BY <2>0, <2>2
  <2>3. (\E v \in Tenant : Usage(v)) \/ UNCHANGED answered
    BY DEF Next, Report, WriteHead, WriteTail, WriteNewline, Record, WriteError, Restart, history
  <2> QED
    BY <2>1, <2>2, <2>3
<1> QED
  BY <1>1, TypeCorrect, UnitsAlways, PTL DEF UsageNeverShrinks, Spec

-----------------------------------------------------------------------------
(* The open line, while appends have come one at a time and to their end:   *)
(* what its one writer has written of its document.                         *)
OpenLine == file[Len(file)]

Undisturbed ==
    /\ \A g, h \in Handler : Appending(g) /\ Appending(h) => g = h
    /\ \A i \in 1 .. Len(file) - 1 : Parses(file[i])
    /\ (\A h \in Handler : ~HalfWritten(h)) => OpenLine = <<>>
    /\ \A h \in Handler : pc[h] = "tail" => OpenLine = <<FirstPart(tenant[h])>>
    /\ \A h \in Handler : pc[h] = "newline" =>
          OpenLine = <<FirstPart(tenant[h]), SecondPart(tenant[h])>>

AppendInv == ~overlapped /\ ~torn => Undisturbed

(* A line that one writer has written to its end parses.                    *)
LEMMA WholeLineParses == \A d : Parses(<<FirstPart(d), SecondPart(d)>>)
BY DEF Parses, FirstPart, SecondPart

(* A sequence of one, made longer.                                          *)
LEMMA AppendSecond == \A a, b : Append(<<a>>, b) = <<a, b>>
<1> SUFFICES ASSUME NEW a, NEW b PROVE Append(<<a>>, b) = <<a, b>>
  OBVIOUS
<1> DEFINE S == {a, b}
<1>1. <<a>> \in Seq(S) /\ <<a, b>> \in Seq(S) /\ b \in S
  OBVIOUS
<1>2. Append(<<a>>, b) \in Seq(S) /\ Len(Append(<<a>>, b)) = 2
  BY <1>1
<1>3. Append(<<a>>, b)[1] = a /\ Append(<<a>>, b)[2] = b
  BY <1>1
<1>4. /\ Len(<<a, b>>) = 2
      /\ \A i \in 1 .. 2 : Append(<<a>>, b)[i] = <<a, b>>[i]
  BY <1>3
<1> HIDE DEF S
<1> QED
  BY <1>1, <1>2, <1>4, SeqEqual

(* A step that writes nothing and leaves no line half written.              *)
LEMMA NothingWritten ==
    ASSUME Undisturbed, file' = file,
           \A h \in Handler : Appending(h)' => Appending(h) /\ pc'[h] = pc[h] /\ tenant'[h] = tenant[h],
           (\A h \in Handler : ~HalfWritten(h)') => \A h \in Handler : ~HalfWritten(h)
    PROVE  Undisturbed'
<1>1. \A h \in Handler : pc'[h] \in {"tail", "newline"} => Appending(h)'
  BY DEF Appending
<1> QED
  BY <1>1 DEF Undisturbed, OpenLine

(* A step of appends that come one at a time and to their end keeps lines   *)
(* whole; any other step sets overlapped or torn.                           *)
LEMMA AppendKept == TypeOK /\ TypeOK' /\ AppendInv /\ [Next]_vars => AppendInv'
<1> SUFFICES ASSUME TypeOK, TypeOK', AppendInv, [Next]_vars, ~overlapped', ~torn'
             PROVE  Undisturbed'
  BY DEF AppendInv
<1>a. ~overlapped /\ ~torn
  BY DEF Next, Report, WriteHead, WriteTail, WriteNewline, Record, Usage, WriteError, Restart,
         history, vars, TypeOK
<1>b. Undisturbed
  BY <1>a DEF AppendInv
<1>c. /\ file \in File(Tenant) /\ Len(file) \in Nat \ {0}
      /\ OpenLine \in Seq(Piece(Tenant))
      /\ pc \in [Handler -> {"idle", "head", "tail", "newline", "record"}]
      /\ tenant \in [Handler -> Tenant \cup {NoTenant}]
      /\ \A h \in Handler : tenant[h] = NoTenant <=> pc[h] = "idle"
  BY FileLines DEF TypeOK, OpenLine
<1>1. ASSUME NEW h \in Handler, NEW t \in Tenant, Report(h, t) PROVE Undisturbed'
  <2>1. /\ \A g \in Handler : ~Appending(g)
        /\ pc[h] = "idle" /\ pc' = [pc EXCEPT ![h] = "head"] /\ file' = file
    BY <1>1 DEF Report, Opened
  <2>2. \A g \in Handler : ~HalfWritten(g) /\ ~HalfWritten(g)' /\ (Appending(g)' => g = h)
    BY <1>c, <2>1 DEF Appending, HalfWritten
  <2>3. \A g \in Handler : pc'[g] # "tail" /\ pc'[g] # "newline"
    BY <2>2 DEF HalfWritten
  <2> QED
    BY <1>b, <2>1, <2>2, <2>3 DEF Undisturbed, OpenLine
<1>2. ASSUME NEW h \in Handler, WriteHead(h) PROVE Undisturbed'
  <2>1. /\ pc[h] = "head" /\ pc' = [pc EXCEPT ![h] = "tail"] /\ UNCHANGED tenant
        /\ file' = Written(file, FirstPart(tenant[h]))
    BY <1>2 DEF WriteHead
  <2>2. \A g \in Handler : Appending(g) => g = h
    BY <1>b, <2>1 DEF Undisturbed, Appending
  <2>3. OpenLine = <<>>
    BY <1>b, <2>1, <2>2 DEF Undisturbed, Appending, HalfWritten
  <2>4. FirstPart(tenant[h]) \in Piece(Tenant)
    BY <1>c, <2>1, PartsArePieces
  <2>5. /\ Len(file') = Len(file)
        /\ \A i \in 1 .. Len(file) - 1 : file'[i] = file[i]
        /\ OpenLine' = Append(OpenLine, FirstPart(tenant[h]))
    <3> DEFINE new == Written(file, FirstPart(tenant[h]))
    <3>1. /\ Len(new) = Len(file)
          /\ \A i \in 1 .. Len(file) - 1 : new[i] = file[i]
          /\ new[Len(file)] = Append(OpenLine, FirstPart(tenant[h]))
      BY <1>c, <2>4, WrittenType DEF OpenLine
    <3>2. file' = new
      BY <2>1
    <3> HIDE DEF new
    <3> QED
      BY <3>1, <3>2 DEF OpenLine
  <2>6. OpenLine' = <<FirstPart(tenant[h])>>
    BY <2>3, <2>5
  <2>7. pc'[h] = "tail" /\ \A g \in Handler : g # h => ~Appending(g)' /\ pc'[g] \notin {"tail", "newline"}
    BY <1>c, <2>1, <2>2 DEF Appending
  <2> QED
    BY <1>b, <2>1, <2>5, <2>6, <2>7 DEF Undisturbed, HalfWritten
<1>3. ASSUME NEW h \in Handler, WriteTail(h) PROVE Undisturbed'
  <2>1. /\ pc[h] = "tail" /\ pc' = [pc EXCEPT ![h] = "newline"] /\ UNCHANGED tenant
        /\ file' = Written(file, SecondPart(tenant[h]))
    BY <1>3 DEF WriteTail
  <2>2. \A g \in Handler : Appending(g) => g = h
    BY <1>b, <2>1 DEF Undisturbed, Appending
  <2>3. OpenLine = <<FirstPart(tenant[h])>>
    BY <1>b, <2>1 DEF Undisturbed
  <2>4. SecondPart(tenant[h]) \in Piece(Tenant)
    BY <1>c, <2>1, PartsArePieces
  <2>5. /\ Len(file') = Len(file)
        /\ \A i \in 1 .. Len(file) - 1 : file'[i] = file[i]
        /\ OpenLine' = Append(OpenLine, SecondPart(tenant[h]))
    <3> DEFINE new == Written(file, SecondPart(tenant[h]))
    <3>1. /\ Len(new) = Len(file)
          /\ \A i \in 1 .. Len(file) - 1 : new[i] = file[i]
          /\ new[Len(file)] = Append(OpenLine, SecondPart(tenant[h]))
      BY <1>c, <2>4, WrittenType DEF OpenLine
    <3>2. file' = new
      BY <2>1
    <3> HIDE DEF new
    <3> QED
      BY <3>1, <3>2 DEF OpenLine
  <2>6. OpenLine' = <<FirstPart(tenant[h]), SecondPart(tenant[h])>>
    BY <2>3, <2>5, AppendSecond
  <2>7. pc'[h] = "newline" /\ \A g \in Handler : g # h => ~Appending(g)' /\ pc'[g] \notin {"tail", "newline"}
    BY <1>c, <2>1, <2>2 DEF Appending
  <2> QED
    BY <1>b, <2>1, <2>5, <2>6, <2>7 DEF Undisturbed, HalfWritten
<1>4. ASSUME NEW h \in Handler, WriteNewline(h) PROVE Undisturbed'
  <2>1. /\ pc[h] = "newline" /\ pc' = [pc EXCEPT ![h] = "record"] /\ file' = Terminated(file)
    BY <1>4 DEF WriteNewline
  <2>2. \A g \in Handler : Appending(g) => g = h
    BY <1>b, <2>1 DEF Undisturbed, Appending
  <2>3. OpenLine = <<FirstPart(tenant[h]), SecondPart(tenant[h])>>
    BY <1>b, <2>1 DEF Undisturbed
  <2>4. Parses(OpenLine)
    BY <2>3, WholeLineParses
  <2>5. /\ Len(file') = Len(file) + 1
        /\ \A i \in 1 .. Len(file) : file'[i] = file[i]
        /\ file'[Len(file) + 1] = <<>>
    BY <1>c, <2>1, TerminatedType
  <2>6. OpenLine' = <<>> /\ \A i \in 1 .. Len(file') - 1 : Parses(file'[i])
    BY <1>b, <1>c, <2>4, <2>5 DEF Undisturbed, OpenLine
  <2>7. \A g \in Handler : ~Appending(g)' /\ pc'[g] \notin {"tail", "newline"}
    BY <1>c, <2>1, <2>2 DEF Appending
  <2> QED
    BY <2>6, <2>7 DEF Undisturbed
<1>5. ASSUME NEW h \in Handler, Record(h) PROVE Undisturbed'
  <2>1. /\ pc[h] = "record" /\ pc' = [pc EXCEPT ![h] = "idle"] /\ file' = file
        /\ tenant' = [tenant EXCEPT ![h] = NoTenant]
    BY <1>5 DEF Record, Done
  <2>2. \A g \in Handler : Appending(g)' => Appending(g) /\ pc'[g] = pc[g] /\ tenant'[g] = tenant[g]
    BY <1>c, <2>1 DEF Appending
  <2>3. \A g \in Handler : ~HalfWritten(g)' => ~HalfWritten(g)
    BY <1>c, <2>1 DEF Appending, HalfWritten
  <2>4. (\A g \in Handler : ~HalfWritten(g)') => \A g \in Handler : ~HalfWritten(g)
    BY <2>3
  <2>5. file' = file
    BY <2>1
  <2> QED
    BY <1>b, <2>2, <2>4, <2>5, NothingWritten
<1>6. ASSUME NEW h \in Handler, WriteError(h) PROVE Undisturbed'
  <2>1. /\ Appending(h) /\ ~HalfWritten(h) /\ file' = file
        /\ pc' = [pc EXCEPT ![h] = "idle"] /\ tenant' = [tenant EXCEPT ![h] = NoTenant]
    BY <1>6 DEF WriteError, Done
  <2>2. \A g \in Handler : Appending(g)' => Appending(g) /\ pc'[g] = pc[g] /\ tenant'[g] = tenant[g]
    BY <1>c, <2>1 DEF Appending
  <2>3. \A g \in Handler : ~HalfWritten(g)' => ~HalfWritten(g)
    BY <1>c, <2>1 DEF Appending, HalfWritten
  <2>4. (\A g \in Handler : ~HalfWritten(g)') => \A g \in Handler : ~HalfWritten(g)
    BY <2>3
  <2>5. file' = file
    BY <2>1
  <2> QED
    BY <1>b, <2>2, <2>4, <2>5, NothingWritten
<1>7. ASSUME NEW t \in Tenant, Usage(t) PROVE Undisturbed'
  <2>1. UNCHANGED <<file, pc, tenant>>
    BY <1>7 DEF Usage
  <2> QED
    BY <1>b, <2>1, NothingWritten DEF Appending, HalfWritten
<1>8. ASSUME Restart PROVE Undisturbed'
  <2>1. /\ \A h \in Handler : ~HalfWritten(h)
        /\ file' = file /\ pc' = [h \in Handler |-> "idle"]
    BY <1>8 DEF Restart
  <2>2. \A h \in Handler : ~Appending(h)' /\ ~HalfWritten(h)'
    BY <2>1 DEF Appending, HalfWritten
  <2> QED
    BY <1>b, <2>1, <2>2, NothingWritten
<1>9. CASE UNCHANGED vars
  <2>1. UNCHANGED <<file, pc, tenant>>
    BY <1>9 DEF vars
  <2> QED
    BY <1>b, <2>1, NothingWritten DEF Appending, HalfWritten
<1> QED
  BY <1>1, <1>2, <1>3, <1>4, <1>5, <1>6, <1>7, <1>8, <1>9 DEF Next

(* Appends that come one at a time and to their end leave a file that can   *)
(* be read: only overlapping appends, or one that stopped half way, do not. *)
THEOREM LoadsUnlessDisturbedHolds == Spec => []LoadsUnlessDisturbed
<1>1. Init => AppendInv
  <2> SUFFICES ASSUME Init PROVE Undisturbed
    BY DEF AppendInv
  <2>1. /\ Len(file) = 1 /\ OpenLine = <<>>
        /\ \A h \in Handler : ~Appending(h) /\ pc[h] = "idle"
    BY DEF Init, EmptyFile, OpenLine, Appending
  <2> QED
    BY <2>1 DEF Undisturbed
<1>2. TypeOK /\ AppendInv => LoadsUnlessDisturbed
  <2> SUFFICES ASSUME TypeOK, Undisturbed, \A h \in Handler : ~Appending(h)
               PROVE  Readable(file)
    BY DEF AppendInv, LoadsUnlessDisturbed
  <2>1. \A h \in Handler : ~HalfWritten(h)
    BY DEF Appending, HalfWritten
  <2>2. OpenLine = <<>> /\ \A i \in 1 .. Len(file) - 1 : Parses(file[i])
    BY <2>1 DEF Undisturbed
  <2>3. file \in File(Tenant)
    BY DEF TypeOK
  <2>4. Lines(file) = Front(file)
    BY <2>2 DEF Lines, Last, OpenLine
  <2>5. Len(Front(file)) = Len(file) - 1 /\ \A i \in 1 .. Len(file) - 1 : Front(file)[i] = file[i]
    BY <2>3, FrontLines
  <2> QED
    BY <2>2, <2>4, <2>5 DEF Readable
<1> QED
  BY <1>1, <1>2, AppendKept, TypeCorrect, PTL DEF Spec
=============================================================================
