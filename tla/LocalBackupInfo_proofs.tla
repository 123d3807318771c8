------------------------ MODULE LocalBackupInfo_proofs ------------------------
(***************************************************************************)
(* Theorems about LocalBackupInfo, for any files and values.  What matters *)
(* is that the file always holds a beginning of the text of the last dump, *)
(* the pieces up to some place in their order, and all of it if the dump   *)
(* was written to its end.                                                 *)
(***************************************************************************)
EXTENDS LocalBackupInfo, TLAPS

(* The text holds, with a piece of the dump of d, all pieces before it.     *)
StartOf(text, d) ==
  /\ text \subseteq Pieces(d)
  /\ \A p \in text, q \in Pieces(d) : Precedes(q, p) => q \in text

(* The inductive invariant.                                                 *)
IInv ==
  /\ InfoTypeOK
  /\ StartOf(disk, dumped)
  /\ phase = "writing" => disk \cup pending = Pieces(dumped)
  /\ phase # "idle" => ~intact
  /\ intact => exists /\ disk = Pieces(dumped)

-----------------------------------------------------------------------------
(* What is in the text of d: its brace and two pieces of every entry.       *)
LEMMA PiecesFacts ==
  ASSUME NEW d, IsInfo(d)
  PROVE  /\ Open \in Pieces(d)
         /\ \A p \in Pieces(d) \ {Open} :
              /\ p[1] \in DOMAIN d /\ p[1] \in Nat /\ p[2] \in Nat
              /\ p = <<p[1], p[2], d[p[1]]>>
         /\ \A f \in DOMAIN d : /\ f \in Nat /\ f > 0 /\ d[f] \in AnyValue
                                /\ <<f, 1, d[f]>> \in Pieces(d) \ {Open}
                                /\ <<f, 2, d[f]>> \in Pieces(d) \ {Open}
BY InfoAssumption DEF IsInfo, Pieces, Open

(* The parts of an entry that are in a beginning of the text of d are those *)
(* of d.                                                                    *)
LEMMA OneValue ==
  ASSUME NEW d, IsInfo(d), NEW text \in SUBSET Pieces(d), NEW f, NEW part \in {1, 2},
         NEW v, <<f, part, v>> \in text
  PROVE  f \in DOMAIN d /\ v = d[f]
BY InfoAssumption DEF IsInfo, Pieces, Open

(* Reading a beginning of the text of d finds the first entries of d.       *)
LEMMA ParseStart ==
  ASSUME NEW d, IsInfo(d), NEW old, NEW text, StartOf(text, d), Open \in text,
         NEW f \in DOMAIN Parse(old, text)
  PROVE  /\ f \in DOMAIN d
         /\ Parse(old, text)[f] \in {d[f], Partial}
         /\ \A g \in DOMAIN d :
              g < f => g \in DOMAIN Parse(old, text) /\ Parse(old, text)[g] = d[g]
<1> DEFINE Both(g, v) == {<<g, 1, v>>, <<g, 2, v>>} \subseteq text
<1>1. DOMAIN Parse(old, text) = {p[1] : p \in text \ {Open}}
  BY DEF Parse
<1>2. \A g \in DOMAIN Parse(old, text) :
        Parse(old, text)[g] = IF \E v \in AnyValue : Both(g, v)
                              THEN CHOOSE v \in AnyValue : Both(g, v) ELSE Partial
  BY DEF Parse
<1>3. PICK p \in text \ {Open} : f = p[1]
  BY <1>1
<1>4. p \in Pieces(d) \ {Open} /\ text \subseteq Pieces(d)
  BY DEF StartOf
<1>5. f \in DOMAIN d /\ p = <<f, p[2], d[f]>> /\ f \in Nat /\ p[2] \in Nat
  BY <1>3, <1>4, PiecesFacts
<1>6. \A g, v : Both(g, v) => g \in DOMAIN d /\ v = d[g]
  BY <1>4, OneValue
<1>7. Parse(old, text)[f] \in {d[f], Partial}
  <2>1. CASE \E v \in AnyValue : Both(f, v)
    <3>1. PICK w : w = (CHOOSE v \in AnyValue : Both(f, v)) /\ Both(f, w)
      BY <2>1
    <3>2. w = d[f]
      BY <3>1, <1>6
    <3> QED BY <3>1, <3>2, <2>1, <1>2
  <2>2. CASE ~ \E v \in AnyValue : Both(f, v)
    BY <2>2, <1>2
  <2> QED BY <2>1, <2>2
<1>8. ASSUME NEW g \in DOMAIN d, g < f
      PROVE  g \in DOMAIN Parse(old, text) /\ Parse(old, text)[g] = d[g]
  <2>1. /\ g \in Nat /\ d[g] \in AnyValue
        /\ <<g, 1, d[g]>> \in Pieces(d) \ {Open}
        /\ <<g, 2, d[g]>> \in Pieces(d) \ {Open}
    BY PiecesFacts
  <2>2. Precedes(<<g, 1, d[g]>>, p) /\ Precedes(<<g, 2, d[g]>>, p)
    BY <1>3, <1>8 DEF Precedes
  <2>3. Both(g, d[g])
    BY <2>1, <2>2, <1>3 DEF StartOf
  <2>4. g \in DOMAIN Parse(old, text)
    BY <1>1, <2>1, <2>3
  <2>5. PICK w : w = (CHOOSE v \in AnyValue : Both(g, v)) /\ Both(g, w)
    BY <2>1, <2>3
  <2>6. w = d[g]
    BY <2>5, <1>6
  <2> QED BY <2>1, <2>3, <2>4, <2>5, <2>6, <1>2
<1> QED BY <1>5, <1>7, <1>8

(* Reading the whole text of d gives d.                                     *)
LEMMA RoundTrip ==
  ASSUME NEW d, IsInfo(d), NEW old
  PROVE  Parse(old, Pieces(d)) = d
<1> DEFINE Both(g, v) == {<<g, 1, v>>, <<g, 2, v>>} \subseteq Pieces(d)
<1>1. Open \in Pieces(d)
  BY PiecesFacts
<1>2. {p[1] : p \in Pieces(d) \ {Open}} = DOMAIN d
  <2>1. \A p \in Pieces(d) \ {Open} : p[1] \in DOMAIN d
    BY PiecesFacts
  <2>2. \A f \in DOMAIN d : <<f, 1, d[f]>> \in Pieces(d) \ {Open} /\ <<f, 1, d[f]>>[1] = f
    BY PiecesFacts
  <2> QED BY <2>1, <2>2
<1>3. ASSUME NEW f \in DOMAIN d
      PROVE  (IF \E v \in AnyValue : Both(f, v)
              THEN CHOOSE v \in AnyValue : Both(f, v) ELSE Partial) = d[f]
  <2>1. d[f] \in AnyValue /\ Both(f, d[f])
    BY PiecesFacts
  <2>2. PICK w : w = (CHOOSE v \in AnyValue : Both(f, v)) /\ Both(f, w)
    BY <2>1
  <2>3. w = d[f]
    BY <2>2, OneValue
  <2> QED BY <2>1, <2>2, <2>3
<1>4. Parse(old, Pieces(d)) =
        [f \in DOMAIN d |-> IF \E v \in AnyValue : Both(f, v)
                            THEN CHOOSE v \in AnyValue : Both(f, v) ELSE Partial]
  BY <1>1, <1>2 DEF Parse
<1>5. d = [f \in DOMAIN d |-> d[f]]
  BY DEF IsInfo
<1> QED BY <1>3, <1>4, <1>5

(* The least of the pieces that are left continues the text.                *)
LEMMA Continue ==
  ASSUME NEW d, IsInfo(d), NEW text, NEW rest, StartOf(text, d),
         text \cup rest = Pieces(d), NEW p \in rest,
         \A q \in rest \ {p} : Precedes(p, q)
  PROVE  StartOf(text \cup {p}, d)
<1>1. \A q \in Pieces(d) : q[1] \in Nat /\ q[2] \in Nat
  <2>1. Open[1] \in Nat /\ Open[2] \in Nat
    BY DEF Open
  <2> QED BY <2>1, PiecesFacts
<1>2. ASSUME NEW q \in Pieces(d), Precedes(q, p)
      PROVE  q \in text
  <2>1. ~ Precedes(p, q) /\ q # p
    BY <1>1, <1>2 DEF Precedes
  <2> QED BY <2>1
<1> QED BY <1>2 DEF StartOf

(* Any object that parse makes of such a text is well formed.               *)
LEMMA ParseType ==
  ASSUME NEW d, IsInfo(d), NEW old, IsInfo(old), NEW text, StartOf(text, d)
  PROVE  IsInfo(Parse(old, text))
<1>1. CASE Open \notin text
  BY <1>1 DEF Parse
<1>2. CASE Open \in text
  <2>1. \A f \in DOMAIN Parse(old, text) :
          f \in DOMAIN d /\ Parse(old, text)[f] \in {d[f], Partial}
    BY <1>2, ParseStart
  <2>2. \A f \in DOMAIN Parse(old, text) : f \in Files /\ Parse(old, text)[f] \in AnyValue
    BY <2>1 DEF IsInfo, AnyValue
  <2>3. Parse(old, text) = [f \in DOMAIN Parse(old, text) |-> Parse(old, text)[f]]
    BY <1>2 DEF Parse
  <2> QED BY <2>2, <2>3 DEF IsInfo
<1> QED BY <1>1, <1>2

-----------------------------------------------------------------------------
(* What the constructor is given is well formed.                            *)
LEMMA GivenType ==
  ASSUME NEW d \in GivenData
  PROVE  IsInfo(d)
BY DEF GivenData, IsInfo, AnyValue

LEMMA InitInv == InfoInit => IInv
<1> SUFFICES ASSUME InfoInit PROVE IInv
  OBVIOUS
<1>1. IsInfo(Nothing)
  BY DEF IsInfo, Nothing
<1>2. IsInfo(data)
  BY GivenType DEF InfoInit
<1> QED BY <1>1, <1>2 DEF InfoInit, IInv, InfoTypeOK, StartOf

LEMMA StepInv == IInv /\ [InfoNext]_infoVars => IInv'
<1> SUFFICES ASSUME IInv, [InfoNext]_infoVars PROVE IInv'
  OBVIOUS
<1> USE DEF IInv, InfoTypeOK
<1>1. ASSUME NEW f \in Files, Subscript(f) PROVE IInv'
  <2>1. PICK v \in AnyValue :
          data' = [g \in DOMAIN data \cup {f} |-> IF g = f THEN v ELSE data[g]]
    BY <1>1 DEF Subscript, AnyValue, IsInfo
  <2>2. IsInfo(data')
    BY <2>1 DEF IsInfo
  <2> QED BY <1>1, <2>2 DEF Subscript
<1>2. ASSUME NEW f \in Files, RemoveMember(f) PROVE IInv'
  <2>1. IsInfo(data')
    BY <1>2 DEF RemoveMember, IsInfo
  <2> QED BY <1>2, <2>1 DEF RemoveMember
<1>3. CASE OpenDump
  <2>1. StartOf({}, data)
    BY DEF StartOf
  <2> QED BY <1>3, <2>1 DEF OpenDump
<1>4. CASE CannotOpenDump
  BY <1>4 DEF CannotOpenDump
<1>5. CASE Flush
  <2>1. PICK p \in pending : /\ \A q \in pending \ {p} : Precedes(p, q)
                             /\ disk' = disk \cup {p}
                             /\ pending' = pending \ {p}
    BY <1>5 DEF Flush
  <2>2. StartOf(disk', dumped)
    BY <1>5, <2>1, Continue DEF Flush
  <2>3. disk' \cup pending' = Pieces(dumped)
    BY <1>5, <2>1 DEF Flush
  <2> QED BY <1>5, <2>1, <2>2, <2>3 DEF Flush, StartOf
<1>6. CASE WriteFails
  BY <1>6 DEF WriteFails
<1>7. CASE DumpReturns
  BY <1>7 DEF DumpReturns
<1>8. CASE ReadFromDisk
  <2>1. IsInfo(data')
    BY <1>8, ParseType DEF ReadFromDisk
  <2> QED BY <1>8, <2>1 DEF ReadFromDisk
<1>9. CASE Die
  <2>1. IsInfo(Nothing)
    BY DEF IsInfo, Nothing
  <2> QED BY <1>9, <2>1 DEF Die
<1>10. CASE Start
  BY <1>10, GivenType DEF Start
<1>11. CASE UNCHANGED infoVars
  BY <1>11 DEF infoVars
<1> QED BY <1>1, <1>2, <1>3, <1>4, <1>5, <1>6, <1>7, <1>8, <1>9, <1>10, <1>11 DEF InfoNext

(* The file always holds a beginning of the text of the last dump, and all  *)
(* of it after a dump that could be written.                                *)
THEOREM Invariant == InfoSpec => []IInv
BY InitInv, StepInv, PTL DEF InfoSpec

(* LocalBackupInfo's memory, file and stream are always well formed.        *)
THEOREM TypeCorrect == InfoSpec => []InfoTypeOK
BY Invariant, PTL DEF IInv

(* dumpToDisk and readFromDisk: a dump that was written to its end is read  *)
(* as it was, whatever happened in between, unless the call says that it    *)
(* could not open the file, and then the data are kept.                     *)
THEOREM LastDumpRead == InfoSpec => LastDumpIsRead
<1> DEFINE Found == \/ result' = "true" /\ data' = dumped
                    \/ result' = "false" /\ data' = data
<1>1. IInv /\ [InfoNext]_infoVars => [ReadFromDisk /\ intact => Found]_infoVars
  <2> SUFFICES ASSUME IInv, ReadFromDisk, intact PROVE Found
    OBVIOUS
  <2>1. exists /\ disk = Pieces(dumped) /\ IsInfo(dumped)
    BY DEF IInv, InfoTypeOK
  <2> QED BY <2>1, RoundTrip DEF ReadFromDisk
<1> QED BY <1>1, Invariant, PTL DEF InfoSpec, LastDumpIsRead

(* readFromDisk after a dump that was cut off: the first entries of that    *)
(* dump and nothing else.                                                   *)
THEOREM StartOfDumpRead == InfoSpec => ReadsStartOfDump
<1> DEFINE Starts ==
      ReadFromDisk /\ data' # data =>
        \A f \in DOMAIN data' :
          /\ f \in DOMAIN dumped
          /\ data'[f] \in {dumped[f], Partial}
          /\ \A g \in DOMAIN dumped :
               g < f => g \in DOMAIN data' /\ data'[g] = dumped[g]
<1>1. IInv /\ [InfoNext]_infoVars => [Starts]_infoVars
  <2> SUFFICES ASSUME IInv, ReadFromDisk, data' # data PROVE Starts
    OBVIOUS
  <2>1. data' = Parse(data, disk) /\ Open \in disk
    BY DEF ReadFromDisk, Parse
  <2>2. StartOf(disk, dumped) /\ IsInfo(dumped)
    BY DEF IInv, InfoTypeOK
  <2> QED BY <2>1, <2>2, ParseStart
<1> QED BY <1>1, Invariant, PTL DEF InfoSpec, ReadsStartOfDump
=============================================================================
