-------------------------- MODULE AtomicWriteProofs --------------------------
(***************************************************************************)
(* The properties of AtomicWrite, for any writers, values and lengths and  *)
(* any choice of the writers that clean up after a failed rename.          *)
(***************************************************************************)
EXTENDS AtomicWrite, TLAPS

\* A descriptor is open exactly between the open and the close, and what it
\* refers to by name exists.
Descriptors ==
    \A w \in Writers :
        /\ pc[w] = "opened" <=> fd[w] # "none"
        /\ fd[w] = "tmp" => tmp # Absent
        /\ fd[w] = "target" => target # Absent
        /\ pc[w] \in Busy => value[w] \in Values

\* Unless the system refused a rename, the temporary file of a writer under way
\* disappears only by a rename, or by the clean-up after a rename that another
\* rename has beaten.
Winner ==
    ~refused => \A w \in Writers :
        /\ (pc[w] \in {"opened", "renaming"} /\ tmp = Absent) => target # Absent
        /\ pc[w] \in {"removing", "lost"} => target # Absent

\* Unless a write was cut short, a file that nobody has open has been written.
NeverShort ==
    ~broken =>
        /\ (tmp # Absent /\ \A w \in Writers : fd[w] # "tmp") => Written(tmp)
        /\ (target # Absent /\ \A w \in Writers : fd[w] # "target") => Written(target)

\* A writer that no other one overlaps works on its own temporary file.
Lone ==
    ~overlap => \A w \in Writers :
        /\ pc[w] \in Busy => \A u \in Writers : pc[u] \in Busy => u = w
        /\ pc[w] = "opened" => fd[w] = "tmp" /\ tmp = Empty
        /\ pc[w] = "renaming" => tmp = Whole(value[w])

Inv == TypeOK /\ Descriptors /\ Winner /\ NeverShort /\ Lone

LEMMA EmptyType == Empty \in Contents /\ Empty # Absent /\ ~Complete(Empty)
  BY NobodyAssumption, AbsentAssumption DEF Empty, Contents, Complete

LEMMA ContentsPresent == Absent \notin Contents
  BY SizeAssumption, AbsentAssumption DEF Contents

LEMMA OverwriteType ==
    ASSUME NEW c \in Contents, NEW v \in Values
    PROVE  Overwrite(c, v) \in Contents /\ Written(Overwrite(c, v))
  BY SizeAssumption DEF Contents, Overwrite, Written

LEMMA EmptyOverwritten ==
    ASSUME NEW v \in Values
    PROVE  Overwrite(Empty, v) = Whole(v)
  BY SizeAssumption DEF Empty, Overwrite, Whole

LEMMA InvInit == Init => Inv
  BY DEF Init, Inv, TypeOK, Descriptors, Winner, NeverShort, Lone, Busy, Rest

-----------------------------------------------------------------------------
(* Each step preserves each conjunct.                                      *)

LEMMA OpenInv ==
    ASSUME Inv, NEW w \in Writers, NEW v \in Values, Open(w, v)
    PROVE  Inv'
<1> USE DEF Open, Begin, Goto, Busy, Rest
<1>1. TypeOK'
  BY EmptyType DEF Inv, TypeOK
<1>2. Descriptors'
  BY EmptyType DEF Inv, TypeOK, Descriptors
<1>3. Winner'
  BY EmptyType DEF Inv, TypeOK, Winner
<1>4. NeverShort'
  BY DEF Inv, TypeOK, NeverShort, Descriptors
<1>5. Lone'
  BY DEF Inv, TypeOK, Lone
<1> QED BY <1>1, <1>2, <1>3, <1>4, <1>5 DEF Inv

LEMMA WriteInv ==
    ASSUME Inv, NEW w \in Writers, Write(w)
    PROVE  Inv'
<1> USE DEF Write, Goto, Close, Busy, Rest
<1>1. value[w] \in Values
  BY DEF Inv, Descriptors
<1>2. fd[w] = "tmp" => tmp \in Contents /\ tmp' \in Contents /\ Written(tmp')
  BY <1>1, OverwriteType DEF Inv, TypeOK, Descriptors
<1>3. fd[w] = "target" => target \in Contents /\ target' \in Contents /\ Written(target')
  BY <1>1, OverwriteType DEF Inv, TypeOK, Descriptors
<1>4. TypeOK'
  BY <1>2, <1>3 DEF Inv, TypeOK
<1>5. (tmp' = Absent <=> tmp = Absent) /\ (target' = Absent <=> target = Absent)
  BY <1>2, <1>3, ContentsPresent
<1>6. Descriptors'
  BY <1>5 DEF Inv, TypeOK, Descriptors
<1>7. Winner'
  BY <1>5 DEF Inv, TypeOK, Winner
<1>8. NeverShort'
  BY <1>2, <1>3, <1>5 DEF Inv, TypeOK, NeverShort
<1>9. Lone'
  BY <1>1, EmptyOverwritten DEF Inv, TypeOK, Lone
<1> QED BY <1>4, <1>6, <1>7, <1>8, <1>9 DEF Inv

LEMMA RenameInv ==
    ASSUME Inv, NEW w \in Writers, Rename(w)
    PROVE  Inv'
<1> USE DEF Rename, Goto, Follow, Busy, Rest
<1>1. TypeOK'
  BY DEF Inv, TypeOK
<1>2. Descriptors'
  BY DEF Inv, TypeOK, Descriptors
<1>3. Winner'
  BY DEF Inv, TypeOK, Winner
<1>4. NeverShort'
  <2> SUFFICES ASSUME ~broken, \A u \in Writers : fd'[u] # "target"
               PROVE  Written(target')
    BY DEF NeverShort
  <2>1. \A u \in Writers : fd[u] # "tmp"
    BY DEF Inv, TypeOK
  <2> QED BY <2>1 DEF Inv, NeverShort
<1>5. Lone'
  BY DEF Inv, TypeOK, Lone
<1> QED BY <1>1, <1>2, <1>3, <1>4, <1>5 DEF Inv

LEMMA RemoveInv ==
    ASSUME Inv, NEW w \in Writers, Remove(w)
    PROVE  Inv'
<1> USE DEF Remove, Goto, Follow, Busy, Rest
<1>1. TypeOK'
  BY DEF Inv, TypeOK
<1>2. Descriptors'
  BY DEF Inv, TypeOK, Descriptors
<1>3. Winner'
  BY DEF Inv, TypeOK, Winner
<1>4. NeverShort'
  BY DEF Inv, TypeOK, NeverShort
<1>5. Lone'
  BY DEF Inv, TypeOK, Lone
<1> QED BY <1>1, <1>2, <1>3, <1>4, <1>5 DEF Inv

\* The steps that touch no file.
LEMMA EndInv ==
    ASSUME Inv, NEW w \in Writers, WriteFails(w) \/ RenameFails(w)
    PROVE  Inv'
<1> USE DEF WriteFails, RenameFails, Goto, Close, Busy, Rest
<1>1. TypeOK'
  BY DEF Inv, TypeOK
<1>2. Descriptors'
  BY DEF Inv, TypeOK, Descriptors
<1>3. Winner'
  BY DEF Inv, TypeOK, Winner
<1>4. NeverShort'
  BY DEF Inv, TypeOK, NeverShort, Descriptors
<1>5. Lone'
  BY DEF Inv, TypeOK, Lone
<1> QED BY <1>1, <1>2, <1>3, <1>4, <1>5 DEF Inv

LEMMA CrashInv ==
    ASSUME Inv, NEW S \in SUBSET Writers, Crash(S)
    PROVE  Inv'
<1> USE DEF Crash, Busy, Rest
<1>1. TypeOK'
  BY DEF Inv, TypeOK
<1>2. Descriptors'
  BY DEF Inv, TypeOK, Descriptors
<1>3. Winner'
  BY DEF Inv, TypeOK, Winner
<1>4. NeverShort'
  BY DEF Inv, TypeOK, NeverShort, Descriptors
<1>5. Lone'
  BY DEF Inv, TypeOK, Lone
<1> QED BY <1>1, <1>2, <1>3, <1>4, <1>5 DEF Inv

LEMMA InvNext == Inv /\ [Next]_vars => Inv'
<1>1. CASE UNCHANGED vars
  BY <1>1 DEF vars, Inv, TypeOK, Descriptors, Winner, NeverShort, Lone
<1> QED BY <1>1, OpenInv, WriteInv, RenameInv, RemoveInv, EndInv, CrashInv DEF Next

-----------------------------------------------------------------------------

\* The inductive invariant holds in every reachable state.
THEOREM Invariance == Spec => []Inv
  BY InvInit, InvNext, PTL DEF Spec

\* Every variable keeps its type.
THEOREM TypeCorrect == Spec => []TypeOK
<1>1. Inv => TypeOK
  BY DEF Inv
<1> QED BY <1>1, Invariance, PTL

\* Unless the system refused a rename, a save that lost its rename lost it to one
\* that succeeded.
THEOREM LoserHasWinner == Spec => []LoserMeansWinner
<1>1. Inv => LoserMeansWinner
  BY DEF Inv, Winner, LoserMeansWinner
<1> QED BY <1>1, Invariance, PTL

\* Overlapping saves never leave a file that is shorter than its value.
THEOREM NoShortTarget == Spec => []TargetNeverShort
<1>1. Inv => TargetNeverShort
  BY DEF Inv, NeverShort, TargetNeverShort
<1> QED BY <1>1, Invariance, PTL

\* A save without overlap is atomic, whatever fails.
THEOREM LoneSaveIsAtomic == Spec => LoneSaveAtomic
<1> DEFINE A == (target' # target /\ ~overlap) =>
                    \E w \in Writers : pc[w] = "renaming" /\ target' = Whole(value[w])
<1>1. Inv /\ [Next]_vars => [A]_vars
  <2> SUFFICES ASSUME Inv, Next, target' # target, ~overlap
               PROVE  \E w \in Writers : pc[w] = "renaming" /\ target' = Whole(value[w])
    BY DEF vars
  <2>1. ASSUME NEW w \in Writers, Rename(w)
        PROVE  pc[w] = "renaming" /\ target' = Whole(value[w])
    BY <2>1 DEF Rename, Inv, Lone
  <2>2. ASSUME NEW w \in Writers, Write(w)
        PROVE  FALSE
    BY <2>2 DEF Write, Inv, Lone
  <2> QED BY <2>1, <2>2 DEF Next, Open, WriteFails, RenameFails, Remove, Crash
<1> QED BY <1>1, Invariance, PTL DEF Spec, LoneSaveAtomic

=============================================================================
