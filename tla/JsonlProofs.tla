----------------------------- MODULE JsonlProofs -----------------------------
(***************************************************************************)
(* What the operations on a JSONL file do to the documents in it, for      *)
(* every kind of document.  A document is counted by its first part: a     *)
(* cell of the file, the number of a line and the place in it.  Cells are  *)
(* only added, whatever becomes of the lines around them, and of a file    *)
(* that can be read they are as many as its documents.                     *)
(***************************************************************************)
EXTENDS Jsonl, FiniteSetTheorems, SequenceTheorems, TLAPS

Cells(file) == {c \in Nat \X Nat : c[1] \in 1 .. Len(file) /\ c[2] \in 1 .. Len(file[c[1]])}

(* Where a document begins.                                                 *)
Heads(file, d) == {c \in Cells(file) : file[c[1]][c[2]] = FirstPart(d)}

(* The cell that the next part goes to.                                     *)
NextCell(file) == <<Len(file), Len(file[Len(file)]) + 1>>

(* A file has at least one line, and its lines are parts of documents.      *)
LEMMA FileLines ==
    ASSUME NEW D, NEW file \in File(D)
    PROVE  /\ file \in Seq(Seq(Piece(D)))
           /\ Len(file) \in Nat \ {0}
           /\ DOMAIN file = 1 .. Len(file)
           /\ \A i \in 1 .. Len(file) : file[i] \in Seq(Piece(D)) /\ Len(file[i]) \in Nat
<1>1. file \in Seq(Seq(Piece(D))) /\ file # <<>>
  BY DEF File
<1> QED
  BY <1>1, EmptySeq, LenProperties, ElementOfSeq

(* The parts of a document are parts.                                       *)
LEMMA PartsArePieces ==
    ASSUME NEW D, NEW d \in D
    PROVE  FirstPart(d) \in Piece(D) /\ SecondPart(d) \in Piece(D)
BY DEF FirstPart, SecondPart, Piece

(* The empty file is a file: its one line is open.                          *)
LEMMA EmptyFileType == ASSUME NEW D PROVE EmptyFile \in File(D)
<1>1. <<>> \in Seq(Piece(D))
  BY EmptySeq
<1> QED
  BY <1>1 DEF EmptyFile, File

(* A write makes the open line longer by one part.                          *)
LEMMA WrittenType ==
    ASSUME NEW D, NEW file \in File(D), NEW piece \in Piece(D)
    PROVE  /\ Written(file, piece) \in File(D)
           /\ Len(Written(file, piece)) = Len(file)
           /\ \A i \in 1 .. Len(file) - 1 : Written(file, piece)[i] = file[i]
           /\ Written(file, piece)[Len(file)] = Append(file[Len(file)], piece)
<1> DEFINE n == Len(file)
<1>1. n \in 1 .. Len(file) /\ file[n] \in Seq(Piece(D))
  BY FileLines
<1>2. Append(file[n], piece) \in Seq(Piece(D))
  BY <1>1, AppendProperties
<1>3. Written(file, piece) = [file EXCEPT ![n] = Append(file[n], piece)]
  BY DEF Written
<1>4. file \in Seq(Seq(Piece(D)))
  BY FileLines
<1>5. /\ Written(file, piece) \in Seq(Seq(Piece(D)))
      /\ Len(Written(file, piece)) = Len(file)
      /\ \A j \in 1 .. Len(file) :
            Written(file, piece)[j] = IF j = n THEN Append(file[n], piece) ELSE file[j]
  BY <1>1, <1>2, <1>3, <1>4, ExceptSeq
<1>6. Written(file, piece) # <<>>
  BY <1>1, <1>5, FileLines, EmptySeq
<1>7. Written(file, piece) \in File(D)
  BY <1>5, <1>6 DEF File
<1>8. \A i \in 1 .. Len(file) - 1 : Written(file, piece)[i] = file[i]
  BY <1>5, FileLines
<1> QED
  BY <1>1, <1>5, <1>7, <1>8

(* A newline opens an empty line after the others.                          *)
LEMMA TerminatedType ==
    ASSUME NEW D, NEW file \in File(D)
    PROVE  /\ Terminated(file) \in File(D)
           /\ Len(Terminated(file)) = Len(file) + 1
           /\ \A i \in 1 .. Len(file) : Terminated(file)[i] = file[i]
           /\ Terminated(file)[Len(file) + 1] = <<>>
<1>1. <<>> \in Seq(Piece(D)) /\ file \in Seq(Seq(Piece(D)))
  BY EmptySeq, FileLines
<1> QED
  BY <1>1, AppendProperties DEF Terminated, File

(* Cells are ordered as they are written.                                   *)
Before(c, e) == c[1] < e[1] \/ (c[1] = e[1] /\ c[2] < e[2])

(* A write adds the next cell, the last of all, and changes no other.       *)
LEMMA WrittenCells ==
    ASSUME NEW D, NEW file \in File(D), NEW piece \in Piece(D)
    PROVE  /\ Cells(Written(file, piece)) = Cells(file) \cup {NextCell(file)}
           /\ NextCell(file) \notin Cells(file)
           /\ Written(file, piece)[NextCell(file)[1]][NextCell(file)[2]] = piece
           /\ \A c \in Cells(file) : /\ Written(file, piece)[c[1]][c[2]] = file[c[1]][c[2]]
                                    /\ Before(c, NextCell(file)) /\ ~Before(NextCell(file), c)
           /\ ~Before(NextCell(file), NextCell(file))
<1> DEFINE n == Len(file)  new == Written(file, piece)
<1>1. n \in Nat \ {0} /\ file[n] \in Seq(Piece(D)) /\ Len(file[n]) \in Nat
  BY FileLines
<1>2. /\ Len(new) = n
      /\ \A i \in 1 .. n - 1 : new[i] = file[i]
      /\ new[n] = Append(file[n], piece)
  BY WrittenType
<1>3. /\ Len(new[n]) = Len(file[n]) + 1
      /\ \A j \in 1 .. Len(file[n]) : new[n][j] = file[n][j]
      /\ new[n][Len(file[n]) + 1] = piece
  BY <1>1, <1>2, AppendProperties
<1> HIDE DEF n, new
<1>4. \A i \in 1 .. n : /\ i # n => new[i] = file[i]
                         /\ Len(file[i]) \in Nat
  BY <1>1, <1>2, FileLines DEF n
<1>5. Cells(new) = Cells(file) \cup {NextCell(file)} /\ NextCell(file) \notin Cells(file)
  <2>1. \A c \in Nat \X Nat : c \in Cells(new) <=> c \in Cells(file) \/ c = NextCell(file)
    BY <1>1, <1>2, <1>3, <1>4 DEF Cells, NextCell, n
  <2>2. NextCell(file) \in Nat \X Nat /\ NextCell(file) \notin Cells(file)
    BY <1>1 DEF Cells, NextCell, n
  <2> QED
    BY <2>1, <2>2 DEF Cells
<1>6. \A c \in Cells(file) : new[c[1]][c[2]] = file[c[1]][c[2]]
  BY <1>2, <1>3, <1>4 DEF Cells, n
<1>7. new[NextCell(file)[1]][NextCell(file)[2]] = piece
  BY <1>3 DEF NextCell, n
<1>8. /\ \A c \in Cells(file) : Before(c, NextCell(file)) /\ ~Before(NextCell(file), c)
      /\ ~Before(NextCell(file), NextCell(file))
  BY <1>1, <1>4 DEF Before, Cells, NextCell, n
<1> QED
  BY <1>5, <1>6, <1>7, <1>8 DEF new

(* A newline adds no cell and changes none.                                 *)
LEMMA TerminatedCells ==
    ASSUME NEW D, NEW file \in File(D)
    PROVE  /\ Cells(Terminated(file)) = Cells(file)
           /\ \A c \in Cells(file) : Terminated(file)[c[1]][c[2]] = file[c[1]][c[2]]
<1> DEFINE n == Len(file)  new == Terminated(file)
<1>1. n \in Nat \ {0} /\ \A i \in 1 .. n : Len(file[i]) \in Nat
  BY FileLines
<1>2. Len(new) = n + 1 /\ (\A i \in 1 .. n : new[i] = file[i]) /\ new[n + 1] = <<>>
  BY TerminatedType
<1>3. Len(new[n + 1]) = 0
  BY <1>2
<1> HIDE DEF n, new
<1>4. Cells(new) = Cells(file)
  BY <1>1, <1>2, <1>3 DEF Cells, n
<1> QED
  BY <1>1, <1>2, <1>4 DEF Cells, n, new

(* The next cell is a head if the part written is a first part.             *)
LEMMA WrittenHeads ==
    ASSUME NEW D, NEW file \in File(D), NEW piece \in Piece(D), NEW d \in D
    PROVE  /\ Heads(Written(file, piece), d) =
                 IF piece = FirstPart(d) THEN Heads(file, d) \cup {NextCell(file)} ELSE Heads(file, d)
           /\ NextCell(file) \notin Heads(file, d)
BY WrittenCells DEF Heads

(* A newline adds no head.                                                  *)
LEMMA TerminatedHeads ==
    ASSUME NEW D, NEW file \in File(D), NEW d \in D
    PROVE  Heads(Terminated(file), d) = Heads(file, d)
BY TerminatedCells DEF Heads

(* Nothing has begun in an empty file.                                      *)
LEMMA NoHeads == \A d : Heads(EmptyFile, d) = {}
<1>1. Len(EmptyFile) = 1 /\ Len(EmptyFile[1]) = 0
  BY DEF EmptyFile
<1> QED
  BY <1>1 DEF Heads, Cells

(* The lines but the open one.                                              *)
LEMMA FrontLines ==
    ASSUME NEW D, NEW file \in File(D)
    PROVE  /\ Len(Front(file)) = Len(file) - 1
           /\ \A i \in 1 .. Len(file) - 1 : Front(file)[i] = file[i]
<1> DEFINE n == Len(file)
<1>1. n \in Nat \ {0} /\ \A i \in 1 .. n - 1 : file[i] \in Seq(Piece(D))
  BY FileLines
<1>2. Front(file) = SubSeq(file, 1, n - 1)
  BY DEF Front
<1> HIDE DEF n
<1>3. /\ Len(SubSeq(file, 1, n - 1)) = IF 1 <= n - 1 THEN n - 1 - 1 + 1 ELSE 0
      /\ \A i \in 1 .. n - 1 - 1 + 1 : SubSeq(file, 1, n - 1)[i] = file[1 + i - 1]
  BY <1>1, SubSeqProperties
<1>4. Len(Front(file)) = n - 1 /\ \A i \in 1 .. n - 1 : Front(file)[i] = file[i]
  BY <1>1, <1>2, <1>3
<1> QED
  BY <1>4 DEF n

(* The documents of a file that can be read are its heads: one to a line.   *)
LEMMA ReadableLines ==
    ASSUME NEW D, NEW file \in File(D), Readable(file)
    PROVE  /\ Len(Lines(file)) \in {Len(file) - 1, Len(file)}
           /\ Len(Lines(file)) = Len(file) - 1 => file[Len(file)] = <<>>
           /\ DOMAIN Documents(file) = 1 .. Len(Lines(file))
           /\ \A i \in 1 .. Len(Lines(file)) :
                 /\ Lines(file)[i] = file[i]
                 /\ Documents(file)[i] \in D
                 /\ Len(file[i]) = 2
                 /\ file[i] = <<FirstPart(Documents(file)[i]), SecondPart(Documents(file)[i])>>
<1> DEFINE n == Len(file)
<1>1. n \in Nat \ {0} /\ file \in Seq(Seq(Piece(D)))
  BY FileLines
<1>2. Last(file) = file[n]
  BY DEF Last
<1>3. Len(Front(file)) = n - 1 /\ \A i \in 1 .. n - 1 : Front(file)[i] = file[i]
  BY FrontLines
<1>4. /\ Len(Lines(file)) \in {n - 1, n}
      /\ Len(Lines(file)) = n - 1 => file[n] = <<>>
      /\ \A i \in 1 .. Len(Lines(file)) : Lines(file)[i] = file[i]
  <2>1. CASE file[n] = <<>>
    <3>1. Lines(file) = Front(file)
      BY <2>1, <1>2 DEF Lines
    <3> HIDE DEF n
    <3> QED
      BY <2>1, <3>1, <1>1, <1>3
  <2>2. CASE file[n] # <<>>
    <3>1. Lines(file) = file
      BY <2>2, <1>2 DEF Lines
    <3> QED
      BY <3>1, <1>1
  <2> QED
    BY <2>1, <2>2
<1>5. DOMAIN Documents(file) = 1 .. Len(Lines(file))
  BY DEF Documents
<1>6. ASSUME NEW i \in 1 .. Len(Lines(file))
      PROVE  /\ Documents(file)[i] \in D
             /\ Len(file[i]) = 2
             /\ file[i] = <<FirstPart(Documents(file)[i]), SecondPart(Documents(file)[i])>>
  <2>1. Parses(file[i]) /\ Documents(file)[i] = file[i][1].document
    BY <1>4 DEF Readable, Documents
  <2>2. i \in 1 .. n
    BY <1>1, <1>4
  <2>3. file[i] \in Seq(Piece(D)) /\ Len(file[i]) = 2
    BY <2>1, <2>2, FileLines DEF Parses
  <2>4. file[i][1] \in Piece(D)
    BY <2>3
  <2> QED
    BY <2>1, <2>3, <2>4 DEF Parses, Piece
<1> QED
  BY <1>4, <1>5, <1>6

(* In a file that can be read, what begins is what is stored: the cell of   *)
(* a first part is the first of a line that holds its document.             *)
LEMMA ReadableCells ==
    ASSUME NEW D, NEW file \in File(D), Readable(file)
    PROVE  /\ \A i \in DOMAIN Documents(file) :
                 <<i, 1>> \in Cells(file) /\ file[i][1] = FirstPart(Documents(file)[i])
           /\ \A c \in Cells(file) : file[c[1]][c[2]].part = "head" =>
                 /\ c = <<c[1], 1>> /\ c[1] \in DOMAIN Documents(file)
                 /\ file[c[1]][c[2]] = FirstPart(Documents(file)[c[1]])
<1>1. \A c \in Cells(file) : /\ c = <<c[1], c[2]>>
                             /\ c[1] \in 1 .. Len(file) /\ c[2] \in 1 .. Len(file[c[1]])
  BY DEF Cells
<1>2. \A i \in 1 .. Len(file) : i \in 1 .. Len(Lines(file)) \/ Len(file[i]) = 0
  BY ReadableLines, FileLines, SMTT(30)
<1>3. ASSUME NEW c \in Cells(file), file[c[1]][c[2]].part = "head"
      PROVE  /\ c = <<c[1], 1>> /\ c[1] \in DOMAIN Documents(file)
             /\ file[c[1]][c[2]] = FirstPart(Documents(file)[c[1]])
  <2>1. c[1] \in 1 .. Len(Lines(file))
    BY <1>1, <1>2
  <2>2. /\ Documents(file)[c[1]] \in D /\ Len(file[c[1]]) = 2
        /\ file[c[1]] = <<FirstPart(Documents(file)[c[1]]), SecondPart(Documents(file)[c[1]])>>
    BY <2>1, ReadableLines
  <2>3. c[2] = 1 \/ c[2] = 2
    BY <1>1, <2>2
  <2>4. SecondPart(Documents(file)[c[1]]).part = "tail"
    BY DEF SecondPart
  <2>5. c[2] = 1
    BY <1>3, <2>2, <2>3, <2>4
  <2> QED
    BY <1>1, <2>1, <2>2, <2>5, ReadableLines
<1>4. ASSUME NEW i \in DOMAIN Documents(file)
      PROVE  <<i, 1>> \in Cells(file) /\ file[i][1] = FirstPart(Documents(file)[i])
  <2>1. i \in 1 .. Len(Lines(file))
    BY ReadableLines
  <2>2. /\ Len(file[i]) = 2
        /\ file[i] = <<FirstPart(Documents(file)[i]), SecondPart(Documents(file)[i])>>
    BY <2>1, ReadableLines
  <2>3. i \in 1 .. Len(file) /\ i \in Nat
    BY <2>1, ReadableLines, FileLines
  <2>4. 1 \in 1 .. Len(file[i]) /\ <<i, 1>> \in Nat \X Nat /\ <<i, 1>>[1] = i /\ <<i, 1>>[2] = 1
    BY <2>2, <2>3
  <2>5. <<i, 1>> \in Cells(file)
    BY <2>3, <2>4 DEF Cells
  <2>6. file[i][1] = FirstPart(Documents(file)[i])
    BY <2>2
  <2> QED
    BY <2>5, <2>6
<1> QED
  BY <1>3, <1>4

(* A document is stored in such a file as often as it has begun.            *)
LEMMA ReadableHeads ==
    ASSUME NEW D, NEW file \in File(D), Readable(file), NEW d \in D, IsFiniteSet(Heads(file, d))
    PROVE  Cardinality({i \in DOMAIN Documents(file) : Documents(file)[i] = d})
              = Cardinality(Heads(file, d))
<1> DEFINE S == {i \in DOMAIN Documents(file) : Documents(file)[i] = d}
           T == Heads(file, d)
           f == [c \in T |-> c[1]]
<1>3. \A e \in D : FirstPart(d).part = "head" /\ (FirstPart(d) = FirstPart(e) => d = e)
  BY DEF FirstPart
<1>4. ASSUME NEW c \in T PROVE c[1] \in S /\ c = <<c[1], 1>>
  <2>1. c \in Cells(file) /\ file[c[1]][c[2]] = FirstPart(d)
    BY DEF Heads
  <2>2. /\ c = <<c[1], 1>> /\ c[1] \in DOMAIN Documents(file)
        /\ FirstPart(d) = FirstPart(Documents(file)[c[1]])
    BY <1>3, <2>1, ReadableCells
  <2> QED
    BY <1>3, <2>2, ReadableLines
<1>5. ASSUME NEW i \in S PROVE <<i, 1>> \in T
  <2>1. <<i, 1>> \in Cells(file) /\ file[i][1] = FirstPart(d)
    BY ReadableCells
  <2>2. <<i, 1>>[1] = i /\ <<i, 1>>[2] = 1
    OBVIOUS
  <2> HIDE DEF S
  <2> QED
    BY <2>1, <2>2 DEF Heads
<1> HIDE DEF S, T
<1>6. f \in [T -> S]
  BY <1>4
<1>7. \A c, e \in T : f[c] = f[e] => c = e
  BY <1>4
<1>8. \A i \in S : \E c \in T : f[c] = i
  <2> TAKE i \in S
  <2>1. <<i, 1>> \in T /\ f[<<i, 1>>] = i
    BY <1>5
  <2> QED
    BY <2>1
<1>9. ExistsBijection(T, S)
  BY <1>6, <1>7, <1>8 DEF ExistsBijection, Bijection, Injection, Surjection, IsInjective
<1> QED
  BY <1>9, FS_Bijection DEF S, T
=============================================================================
