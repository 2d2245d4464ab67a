----------------------------- MODULE SourceFile -----------------------------
(***************************************************************************)
(* file_read of src/src/file.c, one action per library call, while someone *)
(* may be editing the file.  fread takes the characters one by one, each   *)
(* as the file has it at that moment.                                      *)
(***************************************************************************)
EXTENDS Naturals, Sequences, Characters

CONSTANTS Saves,      \* what the file may hold
          RUINT_MAX,  \* largest uint
          MaxEdits    \* bound on how often the file is edited

EXTRA_NULL_TERMINATORS == 3
ASSUME SavesAssumption == Saves \subseteq Seq(Char)
ASSUME FileRangeAssumption == RUINT_MAX \in Nat /\ RUINT_MAX > EXTRA_NULL_TERMINATORS
ASSUME EditsAssumption == MaxEdits \in Nat

VARIABLES name,      \* "short", "other" (no .vr at its end) or "vr"
          disk,      \* what the file holds
          versions,  \* history: everything it has held
          edits,     \* how often it was edited
          length,    \* the st_size that fstat found
          contents,  \* the characters in the buffer
          file,      \* the FILE of fopen
          buffer,    \* the memory of malloc
          pc

disk_vars == <<disk, versions, edits>>
fileVars == <<name, disk, versions, edits, length, contents, file, buffer, pc>>

(* What became of a resource that is to be given back once.                *)
Ownership == {"none", "held", "released", "misused"}
Release(resource) == IF resource = "held" THEN "released" ELSE "misused"

FileInit == /\ name \in {"short", "other", "vr"}
            /\ disk \in Saves
            /\ versions = {disk}
            /\ edits = 0
            /\ length = 0
            /\ contents = <<>>
            /\ file = "none"
            /\ buffer = "none"

(* The return of file_read with the code failure, and the early returns    *)
(* that close the file first.                                              *)
Failed == pc' = "unread"
FailedOpen == Failed /\ file' = Release(file)

(* An editor saves something else, in place.                               *)
edit == /\ edits < MaxEdits
        /\ disk' \in Saves
        /\ versions' = versions \cup {disk'}
        /\ edits' = edits + 1
        /\ UNCHANGED <<name, length, contents, file, buffer, pc>>

check_name == /\ pc = "name"
              /\ \/ name = "vr" /\ pc' = "open"
                 \/ name # "vr" /\ Failed
              /\ UNCHANGED <<name, disk_vars, length, contents, file, buffer>>

open_file == /\ pc = "open"
             /\ \/ file' = "held" /\ pc' = "stat"
                \/ Failed /\ UNCHANGED file
             /\ UNCHANGED <<name, disk_vars, length, contents, buffer>>

LengthOfLastIndex == /\ pc = "stat"
                     /\ \/ length' = Len(disk) - 1 /\ pc' = "length" /\ UNCHANGED file
                        \/ FailedOpen /\ UNCHANGED length
                     /\ UNCHANGED <<name, disk_vars, contents, buffer>>
stat_file == /\ pc = "stat"
             /\ \/ length' = Len(disk) /\ pc' = "length" /\ UNCHANGED file
                \/ FailedOpen /\ UNCHANGED length
             /\ UNCHANGED <<name, disk_vars, contents, buffer>>

LengthFitsUint == length # 0 /\ length <= RUINT_MAX
LengthOK == length # 0 /\ length <= RUINT_MAX - EXTRA_NULL_TERMINATORS
check_length == /\ pc = "length"
                /\ \/ LengthOK /\ pc' = "allocate" /\ UNCHANGED file
                   \/ ~LengthOK /\ FailedOpen
                /\ UNCHANGED <<name, disk_vars, length, contents, buffer>>

allocate == /\ pc = "allocate"
            /\ \/ buffer' = "held" /\ pc' = "read" /\ UNCHANGED file
               \/ file' = Release(file) /\ pc' = "exited" /\ UNCHANGED buffer
            /\ UNCHANGED <<name, disk_vars, length, contents>>

read_character == /\ pc = "read"
                  /\ Len(contents) < length /\ Len(contents) < Len(disk)
                  /\ contents' = Append(contents, disk[Len(contents) + 1])
                  /\ UNCHANGED <<name, disk_vars, length, file, buffer, pc>>

(* fread gives out fewer characters than length: at the end of what the    *)
(* file holds now, or at an error.                                         *)
ForgetsToClose == /\ pc = "read" /\ Len(contents) < length
                  /\ Failed
                  /\ buffer' = Release(buffer)
                  /\ UNCHANGED <<name, disk_vars, length, contents, file>>
AcceptsShort == /\ pc = "read" /\ Len(contents) < length
                /\ file' = Release(file)
                /\ pc' = "loaded"
                /\ UNCHANGED <<name, disk_vars, length, contents, buffer>>
WaitsForMore == /\ pc = "read" /\ Len(contents) < length
                /\ UNCHANGED fileVars
read_short == /\ pc = "read" /\ Len(contents) < length
              /\ FailedOpen
              /\ buffer' = Release(buffer)
              /\ UNCHANGED <<name, disk_vars, length, contents>>

(* The terminators are in place.  The first character decides whether this *)
(* is text; no other one is looked at.                                     *)
FirstIsText == contents[1] # NUL
read_all == /\ pc = "read" /\ Len(contents) = length
            /\ file' = Release(file)
            /\ \/ FirstIsText /\ pc' = "loaded" /\ UNCHANGED buffer
               \/ ~FirstIsText /\ Failed /\ buffer' = Release(buffer)
            /\ UNCHANGED <<name, disk_vars, length, contents>>

file_read == \/ check_name \/ open_file \/ stat_file \/ check_length \/ allocate
             \/ read_character \/ read_short \/ read_all

FileReadNext == file_read \/ edit

FileReadInit == FileInit /\ pc = "name"

(* The reader takes its next step; nobody has to edit the file.            *)
FileReadSpec == /\ FileReadInit
                /\ [][FileReadNext]_fileVars
                /\ WF_fileVars(file_read)
-----------------------------------------------------------------------------
(* Properties.                                                             *)

FilePhases == {"name", "open", "stat", "length", "allocate", "read"}
FileReturned == {"unread", "loaded"}

FileTypeOK == /\ name \in {"short", "other", "vr"}
              /\ disk \in Saves /\ versions \subseteq Saves
              /\ edits \in 0 .. MaxEdits
              /\ length \in Nat
              /\ contents \in Seq(Char)
              /\ file \in Ownership /\ buffer \in Ownership

(* What file_read returns as a success is a text the lexer can take: not   *)
(* empty, short enough for its terminators to fit a uint, and not starting *)
(* with the null character the lexer would take for the end, whatever was  *)
(* saved since fstat (file.c:48-96).                                       *)
LoadedIsText ==
    pc = "loaded" => /\ Len(contents) = length
                     /\ Len(contents) \in 1 .. RUINT_MAX - EXTRA_NULL_TERMINATORS
                     /\ contents[1] # NUL

(* Every return of file_read has closed the file once, and has given the   *)
(* buffer back exactly when it is not the caller's (file.c:41-94).         *)
ReaderReleases ==
    /\ "misused" \notin {file, buffer}
    /\ pc \in FileReturned => file # "held"
    /\ pc = "unread" => buffer # "held"
    /\ pc = "loaded" => buffer = "held"

(* When nobody saves the file, what is read is what it holds, whole.       *)
QuietReadIsWhole == pc = "loaded" /\ edits = 0 => contents = disk

(* An editor cannot keep the reader from returning: the length is fixed    *)
(* before the reading starts (file.c:46).                                  *)
ReaderReturns == <>(pc \in FileReturned \cup {"exited"})

(* What the comment over file_read (file.c:5) is after: what is read is    *)
(* the whole of something the file held, though developers may modify it   *)
(* during the reading.                                                     *)
WholeFile == pc = "loaded" => contents \in versions
=============================================================================
