----------------------------- MODULE ZipUpdate -----------------------------
(***************************************************************************)
(* update_zip_archive() (mvlc_listfile_zip.cc): adds, replaces and deletes *)
(* files of an archive by writing a new archive next to it and renaming    *)
(* that over the old one.  Every call of minizip may fail, the user may    *)
(* cancel, and the disk may be too small.                                  *)
(***************************************************************************)
EXTENDS Integers, Sequences, FiniteSets, SequencesExt

CONSTANTS
    Archive,            \* the entries at the start: sequence of [name, data]
    OpLists             \* sequences of [op, name, data] to choose from

VARIABLES
    ops,
    input,              \* contents of input_zip_path
    temp,               \* contents of the temporary file; Gone: there is none
    tempComplete,       \* its directory has been written
    step,               \* "check", "copy", "ops", "close", "rename" or "done"
    index,              \* position in the loop under way
    result              \* "none", "ok", "ec", "cancelled" or "ex"

vars == <<ops, input, temp, tempComplete, step, index, result>>

Gone == <<[name |-> "none", data |-> -1]>>
Names(entries) == {entries[i].name : i \in DOMAIN entries}

Init ==
    /\ ops \in OpLists
    /\ input = Archive /\ temp = Gone /\ tempComplete = FALSE
    /\ step = "check" /\ index = 1 /\ result = "none"

\* Mutant: the temporary file stays.
MutReturn(r) == /\ result' = r /\ step' = "done"
                /\ UNCHANGED <<ops, input, index, temp, tempComplete>>

\* tmpFileDeleter removes the file on every way out.
Return(r) == /\ result' = r /\ step' = "done"
             /\ temp' = Gone /\ tempComplete' = FALSE
             /\ UNCHANGED <<ops, input, index>>

pre_check ==
    \A i \in DOMAIN ops :
        IF ops[i].op = "add" THEN ops[i].name \notin Names(Archive)
        ELSE ops[i].name \in Names(Archive)

\* fill_operations_map(): one operation per file.
fill_operations_map ==
    \A i, j \in DOMAIN ops : ops[i].name = ops[j].name => i = j

\* There is not enough space, opening the archive or creating the new one throws.
CheckFails == step = "check" /\ Return("ec")

Prepare ==
    /\ step = "check"
    /\ IF pre_check /\ fill_operations_map
       THEN /\ temp' = <<>> /\ step' = "copy" /\ index' = 1
            /\ UNCHANGED <<ops, input, tempComplete, result>>
       ELSE Return("ec")

\* Mutant: only what is deleted is left out.
MutKeep(name) == ~\E i \in DOMAIN ops : ops[i].op = "delete" /\ ops[i].name = name

\* Files with an operation are not copied: they go, or come later.
Keep(name) == name \notin Names(ops)

copy_zip_entry ==
    /\ step = "copy" /\ index <= Len(Archive)
    /\ temp' = IF Keep(Archive[index].name) THEN Append(temp, Archive[index]) ELSE temp
    /\ index' = index + 1
    /\ UNCHANGED <<ops, input, tempComplete, step, result>>

\* An entry is cut off by an error or because the user cancelled.
CopyFails ==
    /\ step = "copy" /\ index <= Len(Archive) /\ Keep(Archive[index].name)
    /\ Return("ex") \/ Return("cancelled")

CopyDone ==
    /\ step = "copy" /\ index > Len(Archive)
    /\ step' = "ops" /\ index' = 1
    /\ UNCHANGED <<ops, input, temp, tempComplete, result>>

Operation ==
    /\ step = "ops" /\ index <= Len(ops)
    /\ LET o == ops[index]
       IN  temp' = IF o.op = "delete" THEN temp
                   ELSE Append(temp, [name |-> o.name, data |-> o.data])
    /\ index' = index + 1
    /\ UNCHANGED <<ops, input, tempComplete, step, result>>

\* The user cancelled; or adding the entry throws.
OperationFails ==
    /\ step = "ops" /\ index <= Len(ops)
    /\ \/ Return("cancelled")
       \/ ops[index].op # "delete" /\ Return("ex")

OpsDone ==
    /\ step = "ops" /\ index > Len(ops)
    /\ step' = "close"
    /\ UNCHANGED <<ops, input, temp, tempComplete, index, result>>

\* Mutant: the new archive is moved before it is complete.
MutClose ==
    /\ step = "close"
    /\ step' = "rename"
    /\ UNCHANGED <<ops, input, temp, tempComplete, index, result>>

Close ==
    /\ step = "close"
    /\ tempComplete' = TRUE /\ step' = "rename"
    /\ UNCHANGED <<ops, input, temp, index, result>>

CloseFails == step = "close" /\ Return("ex")

rename_file ==
    /\ step = "rename"
    /\ input' = IF tempComplete THEN temp ELSE <<>>
    /\ temp' = Gone /\ tempComplete' = FALSE
    /\ step' = "done" /\ result' = "ok"
    /\ UNCHANGED <<ops, index>>

RenameFails == step = "rename" /\ Return("ex")

Next ==
    \/ CheckFails \/ Prepare
    \/ copy_zip_entry \/ CopyFails \/ CopyDone
    \/ Operation \/ OperationFails \/ OpsDone
    \/ Close \/ CloseFails \/ rename_file \/ RenameFails

Spec == Init /\ [][Next]_vars /\ WF_vars(Next)

-----------------------------------------------------------------------------
(* Properties.                                                             *)

\* What the operations ask for: file -> contents.
Wanted ==
    LET old == {[name |-> Archive[i].name, data |-> Archive[i].data] : i \in DOMAIN Archive}
        new == {[name |-> ops[i].name, data |-> ops[i].data] :
                    i \in {j \in DOMAIN ops : ops[j].op # "delete"}}
    IN  {e \in old : e.name \notin Names(ops)} \cup new

\* At every moment the archive is the old one or the new one in full, so that a
\* failure, a cancellation or a crash at any point leaves no damaged archive; the
\* caller is told "ok" exactly when it is the new one. (update_zip_archive())
AllOrNothing ==
    \/ /\ input = Archive /\ (result = "ok" => Wanted = ToSet(Archive))
    \/ result = "ok" /\ ToSet(input) = Wanted /\ Len(input) = Cardinality(Wanted)

\* An archive never has two files of a name. (pre_check(), fill_operations_map())
NamesUnique == Cardinality(Names(input)) = Len(input)

\* The call ends, and leaves no temporary file behind. (tmpFileDeleter)
EndsClean == <>[](step = "done" /\ temp = Gone)
=============================================================================
