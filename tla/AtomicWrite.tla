----------------------------- MODULE AtomicWrite -----------------------------
(***************************************************************************)
(* Replacing a file by writing a temporary file next to it and renaming    *)
(* it, as the token cache, the master-file caches, the KOFIA and SEC       *)
(* caches and the JSON exports do.  All writers of a path, goroutines and  *)
(* processes alike, use the same temporary name, <path>.tmp.               *)
(*                                                                         *)
(* A file's content is abstracted to the value whose bytes were written    *)
(* last and the file's length.  os.WriteFile is an open with O_TRUNC, a    *)
(* write at offset 0 and a close; what an open descriptor refers to        *)
(* follows the file when its name changes.                                 *)
(***************************************************************************)
EXTENDS Naturals, FiniteSets

CONSTANTS
    Writers,
    Values,
    Size,      \* length of each value's encoding
    Remover,   \* the writers that remove the temporary file after a failed rename
    Absent,    \* no file has this name
    Nobody     \* no value: what an empty file holds

ASSUME SizeAssumption == Size \in [Values -> Nat \ {0}]
ASSUME RemoverAssumption == Remover \subseteq Writers
ASSUME NobodyAssumption == Nobody \notin Values
ASSUME AbsentAssumption == Absent \notin [last : Values \cup {Nobody}, size : Nat]

VARIABLES
    tmp,      \* the file named <path>.tmp
    target,   \* the file named <path>
    fd,       \* what the descriptor of each writer refers to
    pc,       \* where each writer is
    value,    \* what it writes
    broken,   \* history: a write was cut short by an error or a crash
    overlap,  \* history: a write began while another one was under way
    refused   \* history: a rename failed although the temporary file was there

vars == <<tmp, target, fd, pc, value, broken, overlap, refused>>

Contents == [last : Values \cup {Nobody}, size : {0} \cup {Size[v] : v \in Values}]
Empty == [last |-> Nobody, size |-> 0]
Whole(v) == [last |-> v, size |-> Size[v]]

\* The file can be read back: exactly the bytes of one value.
Complete(c) == c.last \in Values /\ c.size = Size[c.last]

\* The file holds all the bytes of a value, maybe with a longer one's tail.
Written(c) == c.last \in Values /\ c.size >= Size[c.last]

Busy == {"opened", "renaming", "removing"}
Rest == {"idle", "saved", "lost"}

\* (mutant) The write appends to what the file holds.
Append(c, v) == [last |-> v, size |-> c.size + Size[v]]

\* A write at offset 0 does not shorten the file.
Overwrite(c, v) ==
    [last |-> v, size |-> IF c.size > Size[v] THEN c.size ELSE Size[v]]

TypeOK ==
    /\ tmp \in Contents \cup {Absent}
    /\ target \in Contents \cup {Absent}
    /\ fd \in [Writers -> {"none", "tmp", "target", "gone"}]
    /\ pc \in [Writers -> Busy \cup Rest]
    /\ value \in [Writers -> Values \cup {Nobody}]
    /\ broken \in BOOLEAN
    /\ overlap \in BOOLEAN
    /\ refused \in BOOLEAN

Init ==
    /\ tmp = Absent
    /\ target = Absent
    /\ fd = [w \in Writers |-> "none"]
    /\ pc = [w \in Writers |-> "idle"]
    /\ value = [w \in Writers |-> Nobody]
    /\ broken = FALSE
    /\ overlap = FALSE
    /\ refused = FALSE

-----------------------------------------------------------------------------

Goto(w, s) == pc' = [pc EXCEPT ![w] = s]
Close(w) == fd' = [fd EXCEPT ![w] = "none"]

\* The descriptors that refer to a file when its name changes.
Follow(from, to) ==
    fd' = [w \in Writers |-> IF fd[w] = from THEN to
                             ELSE IF fd[w] = to THEN "gone" ELSE fd[w]]

Begin(w, v) ==
    /\ pc[w] \in Rest
    /\ Goto(w, "opened")
    /\ value' = [value EXCEPT ![w] = v]
    /\ overlap' = (\E u \in Writers : pc[u] \in Busy)
    /\ UNCHANGED <<broken, refused>>

\* (mutant) The file itself is rewritten.
OpenInPlace(w, v) ==
    /\ Begin(w, v)
    /\ fd' = [fd EXCEPT ![w] = "target"]
    /\ target' = Empty
    /\ UNCHANGED tmp

\* os.WriteFile opens the temporary file, empties or creates it.
Open(w, v) ==
    /\ Begin(w, v)
    /\ fd' = [fd EXCEPT ![w] = "tmp"]
    /\ tmp' = Empty
    /\ UNCHANGED target

\* os.WriteFile writes and closes: the bytes go where the descriptor leads.
Write(w) ==
    /\ pc[w] = "opened"
    /\ tmp' = IF fd[w] = "tmp" THEN Overwrite(tmp, value[w]) ELSE tmp
    /\ target' = IF fd[w] = "target" THEN Overwrite(target, value[w]) ELSE target
    /\ Close(w)
    /\ Goto(w, "renaming")
    /\ UNCHANGED <<value, broken, overlap, refused>>

\* os.WriteFile fails (a full disk): the error is returned and the temporary
\* file stays as it is.
WriteFails(w) ==
    /\ pc[w] = "opened"
    /\ Close(w)
    /\ Goto(w, "idle")
    /\ broken' = TRUE
    /\ UNCHANGED <<tmp, target, value, overlap, refused>>

\* (mutant) The rename does not wait for the write.
RenameEarly(w) ==
    /\ pc[w] \in {"opened", "renaming"}
    /\ tmp # Absent
    /\ target' = tmp
    /\ tmp' = Absent
    /\ Follow("tmp", "target")
    /\ Goto(w, "saved")
    /\ UNCHANGED <<value, broken, overlap, refused>>

Rename(w) ==
    /\ pc[w] = "renaming"
    /\ tmp # Absent
    /\ target' = tmp
    /\ tmp' = Absent
    /\ Follow("tmp", "target")
    /\ Goto(w, "saved")
    /\ UNCHANGED <<value, broken, overlap, refused>>

\* The temporary file is gone, because another writer renamed or removed it, or
\* the system refuses the rename: a permission, a directory at the path.
RenameFails(w) ==
    /\ pc[w] = "renaming"
    /\ refused' = (refused \/ tmp # Absent)
    /\ Goto(w, IF w \in Remover THEN "removing" ELSE "lost")
    /\ UNCHANGED <<tmp, target, fd, value, broken, overlap>>

\* (mutant) The clean-up removes the file instead of the temporary one.
RemoveTarget(w) ==
    /\ pc[w] = "removing"
    /\ target' = Absent
    /\ Follow("target", "gone")
    /\ Goto(w, "lost")
    /\ UNCHANGED <<tmp, value, broken, overlap, refused>>

\* os.Remove after a failed rename: whoever's temporary file it is by now.
Remove(w) ==
    /\ pc[w] = "removing"
    /\ tmp' = Absent
    /\ Follow("tmp", "gone")
    /\ Goto(w, "lost")
    /\ UNCHANGED <<target, value, broken, overlap, refused>>

\* A process dies, and with it the saves S of its goroutines.
Crash(S) ==
    /\ S # {} /\ \A w \in S : pc[w] \in Busy
    /\ fd' = [w \in Writers |-> IF w \in S THEN "none" ELSE fd[w]]
    /\ pc' = [w \in Writers |-> IF w \in S THEN "idle" ELSE pc[w]]
    /\ broken' = (broken \/ \E w \in S : pc[w] = "opened")
    /\ UNCHANGED <<tmp, target, value, overlap, refused>>

Next ==
    \/ \E w \in Writers :
           \/ \E v \in Values : Open(w, v)
           \/ Write(w) \/ WriteFails(w)
           \/ Rename(w) \/ RenameFails(w) \/ Remove(w)
    \/ \E S \in SUBSET Writers : Crash(S)

Spec == Init /\ [][Next]_vars

-----------------------------------------------------------------------------
(* Properties.                                                             *)

\* As long as the system has refused no rename, a save loses its rename only to a
\* save that succeeded: when it reports an error, there is a file.  (A writer that
\* cleans up after a refused rename may remove what another one has written.)
LoserMeansWinner ==
    ~refused => \A w \in Writers : pc[w] \in {"removing", "lost"} => target # Absent

\* Unless a write was cut short, the file holds all the bytes of a value as soon
\* as nobody has it open: overlapping saves can leave a longer value's tail
\* behind, but no file that stays empty.
TargetNeverShort ==
    (~broken /\ target # Absent /\ \A w \in Writers : fd[w] # "target")
        => Written(target)

\* A save that no other save overlaps replaces the file in one step, from what
\* it was to the whole new value, also when it fails or dies half-way.
LoneSaveAtomic ==
    [][(target' # target /\ ~overlap) =>
           \E w \in Writers : pc[w] = "renaming" /\ target' = Whole(value[w])]_vars

\* fileio.go and mstcache.go say the file is written "atomically": a reader finds
\* no file or a complete one at any time.
AlwaysReadable == target = Absent \/ Complete(target)

=============================================================================
