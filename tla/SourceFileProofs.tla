-------------------------- MODULE SourceFileProofs --------------------------
(***************************************************************************)
(* Proofs about file_read, for every file, every editor and every range of *)
(* uint.  The invariant says nothing of the phases that are not those of   *)
(* file_read, so that a program which goes on from there can use it.       *)
(***************************************************************************)
EXTENDS SourceFile, SequenceTheorems, TLAPS

(* What is open and what is allocated, from call to call.                  *)
OwnershipOK ==
    /\ pc \in {"name", "open"} => file = "none" /\ buffer = "none"
    /\ pc \in {"stat", "length", "allocate"} => file = "held" /\ buffer = "none"
    /\ pc = "read" => file = "held" /\ buffer = "held"
    /\ pc = "unread" => file \in {"none", "released"} /\ buffer \in {"none", "released"}
    /\ pc = "loaded" => file = "released" /\ buffer = "held"
    /\ pc = "exited" => file # "misused" /\ buffer # "misused"

(* The length is checked before it is used, and what is read never exceeds *)
(* it.                                                                     *)
LengthsOK ==
    /\ pc \in {"name", "open", "stat", "length", "allocate"} => contents = <<>>
    /\ pc \in {"allocate", "read", "loaded"} => LengthOK
    /\ pc = "read" => Len(contents) <= length
    /\ pc = "loaded" => Len(contents) = length /\ FirstIsText

(* As long as nobody edits the file, what is read is what it starts with.  *)
QuietOK ==
    edits = 0 =>
        /\ pc \in {"length", "allocate", "read", "loaded"} => length = Len(disk)
        /\ pc \in {"read", "loaded"} =>
              \A k \in 1 .. Len(contents) : k \in 1 .. Len(disk) /\ contents[k] = disk[k]

FileIInv == FileTypeOK /\ OwnershipOK /\ LengthsOK /\ QuietOK

LEMMA SavedFiles ==
    ASSUME NEW saved \in Saves
    PROVE  /\ saved \in Seq(Char)
           /\ Len(saved) \in Nat
           /\ \A k \in 1 .. Len(saved) : saved[k] \in Char
BY SavesAssumption

LEMMA Released == ASSUME NEW o \in Ownership, o = "held" PROVE Release(o) = "released"
BY DEF Release

(* A step of file_read preserves the invariant.                            *)
LEMMA FileReadStep == ASSUME FileIInv, file_read PROVE FileIInv'
<1>1. /\ disk \in Seq(Char) /\ Len(disk) \in Nat /\ contents \in Seq(Char)
      /\ Len(contents) \in Nat /\ length \in Nat /\ RUINT_MAX \in Nat
      /\ RUINT_MAX - EXTRA_NULL_TERMINATORS \in Nat
      BY SavedFiles, FileRangeAssumption DEF FileIInv, FileTypeOK, EXTRA_NULL_TERMINATORS
<1>2. CASE check_name
      BY <1>2 DEF check_name, Failed, disk_vars, FileIInv, FileTypeOK, OwnershipOK, LengthsOK,
                  QuietOK, LengthOK, FirstIsText
<1>3. CASE open_file
      BY <1>3 DEF open_file, Failed, disk_vars, FileIInv, FileTypeOK, OwnershipOK, LengthsOK,
                  QuietOK, LengthOK, FirstIsText, Ownership
<1>4. CASE stat_file
      BY <1>1, <1>4 DEF stat_file, FailedOpen, Failed, Release, disk_vars, FileIInv, FileTypeOK,
                  OwnershipOK, LengthsOK, QuietOK, LengthOK, FirstIsText, Ownership
<1>5. CASE check_length
      BY <1>1, <1>5 DEF check_length, FailedOpen, Failed, Release, disk_vars, FileIInv, FileTypeOK,
                  OwnershipOK, LengthsOK, QuietOK, LengthOK, FirstIsText, Ownership
<1>6. CASE allocate
      BY <1>1, <1>6 DEF allocate, Release, disk_vars, FileIInv, FileTypeOK,
                  OwnershipOK, LengthsOK, QuietOK, LengthOK, FirstIsText, Ownership
<1>7. CASE read_character
  <2>1. /\ pc = "read" /\ pc' = "read" /\ Len(contents) < length /\ Len(contents) < Len(disk)
        /\ contents' = Append(contents, disk[Len(contents) + 1])
        /\ UNCHANGED <<name, disk_vars, length, file, buffer>>
        BY <1>7 DEF read_character
  <2>2. Len(contents) + 1 \in 1 .. Len(disk) /\ disk[Len(contents) + 1] \in Char
        BY <1>1, <2>1
  <2>3. /\ contents' \in Seq(Char)
        /\ Len(contents') = Len(contents) + 1
        /\ \A k \in 1 .. Len(contents) : contents'[k] = contents[k]
        /\ contents'[Len(contents) + 1] = disk[Len(contents) + 1]
        BY <1>1, <2>1, <2>2, AppendProperties
  <2>4. FileTypeOK'
        BY <2>1, <2>3 DEF FileIInv, FileTypeOK, disk_vars
  <2>5. OwnershipOK'
        BY <2>1 DEF FileIInv, OwnershipOK
  <2>6. LengthsOK'
        BY <1>1, <2>1, <2>3 DEF FileIInv, LengthsOK, LengthOK
  <2>7. QuietOK'
    <3> SUFFICES ASSUME edits' = 0
                 PROVE  /\ length' = Len(disk')
                        /\ \A k \in 1 .. Len(contents') :
                              k \in 1 .. Len(disk') /\ contents'[k] = disk'[k]
        BY <2>1 DEF QuietOK
    <3>1. /\ edits = 0 /\ disk' = disk /\ length' = length /\ length = Len(disk)
          /\ \A k \in 1 .. Len(contents) : k \in 1 .. Len(disk) /\ contents[k] = disk[k]
          BY <2>1 DEF disk_vars, FileIInv, QuietOK
    <3>2. ASSUME NEW k \in 1 .. Len(contents')
          PROVE  k \in 1 .. Len(disk) /\ contents'[k] = disk[k]
      <4>1. CASE k = Len(contents) + 1
            BY <4>1, <2>2, <2>3
      <4>2. CASE k # Len(contents) + 1
        <5>1. k \in 1 .. Len(contents)
              BY <4>2, <1>1, <2>3
        <5> QED BY <5>1, <2>3, <3>1
      <4> QED BY <4>1, <4>2
    <3> QED BY <3>1, <3>2
  <2> QED BY <2>4, <2>5, <2>6, <2>7 DEF FileIInv
<1>8. CASE read_short
      BY <1>1, <1>8 DEF read_short, FailedOpen, Failed, Release, disk_vars, FileIInv, FileTypeOK,
                  OwnershipOK, LengthsOK, QuietOK, LengthOK, FirstIsText, Ownership
<1>9. CASE read_all
      BY <1>1, <1>9 DEF read_all, Failed, Release, disk_vars, FileIInv, FileTypeOK,
                  OwnershipOK, LengthsOK, QuietOK, LengthOK, FirstIsText, Ownership
<1> QED BY <1>2, <1>3, <1>4, <1>5, <1>6, <1>7, <1>8, <1>9 DEF file_read

(* So does whoever edits the file, whatever the reader is doing.           *)
LEMMA EditStep == ASSUME FileIInv, edit PROVE FileIInv'
<1>1. /\ disk' \in Saves /\ versions' = versions \cup {disk'} /\ edits' = edits + 1
      /\ edits < MaxEdits /\ edits \in 0 .. MaxEdits
      /\ UNCHANGED <<name, length, contents, file, buffer, pc>>
      BY DEF edit, FileIInv, FileTypeOK
<1>2. edits' \in 0 .. MaxEdits /\ edits' # 0
      BY <1>1, EditsAssumption
<1>3. FileTypeOK'
      BY <1>1, <1>2 DEF FileIInv, FileTypeOK
<1>4. OwnershipOK' /\ LengthsOK'
      BY <1>1 DEF FileIInv, OwnershipOK, LengthsOK, LengthOK, FirstIsText
<1>5. QuietOK'
      BY <1>2 DEF QuietOK
<1> QED BY <1>3, <1>4, <1>5 DEF FileIInv

LEMMA FileStutter == ASSUME FileIInv, UNCHANGED fileVars PROVE FileIInv'
BY DEF fileVars, FileIInv, FileTypeOK, OwnershipOK, LengthsOK, QuietOK, LengthOK, FirstIsText

LEMMA FileInitial ==
    ASSUME FileInit, pc \in {"name", "main"}
    PROVE  FileIInv
BY EditsAssumption, SavesAssumption
   DEF FileInit, FileIInv, FileTypeOK, OwnershipOK, LengthsOK, QuietOK, Ownership

(* What file_read may do to the phase.                                     *)
LEMMA FileReadPhases ==
    ASSUME FileIInv, file_read
    PROVE  /\ FileIInv'
           /\ pc \in FilePhases
           /\ pc' \in FilePhases \cup FileReturned \cup {"exited"}
<1>1. FileIInv'
      BY FileReadStep
<1> QED BY <1>1 DEF file_read, check_name, open_file, stat_file, check_length, allocate,
              read_character, read_short, read_all, Failed, FailedOpen, FilePhases, FileReturned

OnlyReads == pc \in FilePhases \cup FileReturned \cup {"exited"}

LEMMA FileInductive == FileReadSpec => [](FileIInv /\ OnlyReads)
<1>1. FileReadInit => FileIInv /\ OnlyReads
      BY FileInitial DEF FileReadInit, OnlyReads, FilePhases
<1>2. FileIInv /\ OnlyReads /\ [FileReadNext]_fileVars => (FileIInv /\ OnlyReads)'
  <2> SUFFICES ASSUME FileIInv, OnlyReads, [FileReadNext]_fileVars
               PROVE  FileIInv' /\ OnlyReads'
      OBVIOUS
  <2>1. CASE file_read
        BY <2>1, FileReadPhases DEF OnlyReads
  <2>2. CASE edit
        BY <2>2, EditStep DEF OnlyReads, edit
  <2>3. CASE UNCHANGED fileVars
        BY <2>3, FileStutter DEF OnlyReads, fileVars
  <2> QED BY <2>1, <2>2, <2>3 DEF FileReadNext
<1> QED BY <1>1, <1>2, PTL DEF FileReadSpec

(* Every variable keeps its type.                                          *)
THEOREM FileTypeCorrect == FileReadSpec => []FileTypeOK
<1>1. FileIInv => FileTypeOK
      BY DEF FileIInv
<1> QED BY <1>1, FileInductive, PTL

(* Whatever is saved while it is read, a file that file_read accepts is a  *)
(* text: TextsAssumption of the lexer holds of it (file.c:48-96).          *)
THEOREM LoadedIsAText == FileReadSpec => []LoadedIsText
<1>1. FileIInv => LoadedIsText
  <2> SUFFICES ASSUME FileIInv, pc = "loaded"
               PROVE  /\ Len(contents) = length
                      /\ Len(contents) \in 1 .. RUINT_MAX - EXTRA_NULL_TERMINATORS
                      /\ contents[1] # NUL
      BY DEF LoadedIsText
  <2>1. Len(contents) = length /\ LengthOK /\ FirstIsText /\ length \in Nat
        BY DEF FileIInv, LengthsOK, FileTypeOK
  <2> QED BY <2>1, FileRangeAssumption DEF LengthOK, FirstIsText, EXTRA_NULL_TERMINATORS
<1> QED BY <1>1, FileInductive, PTL

(* Every return of file_read has closed the file once, and keeps the       *)
(* buffer only for the caller (file.c:41-94).                              *)
THEOREM ReaderAlwaysReleases == FileReadSpec => []ReaderReleases
<1>1. FileIInv /\ OnlyReads => ReaderReleases
      BY DEF FileIInv, OwnershipOK, OnlyReads, ReaderReleases, FilePhases, FileReturned
<1> QED BY <1>1, FileInductive, PTL

(* A file that nobody saves meanwhile is read whole (file.c:71).           *)
THEOREM QuietReads == FileReadSpec => []QuietReadIsWhole
<1>1. FileIInv => QuietReadIsWhole
  <2> SUFFICES ASSUME FileIInv, pc = "loaded", edits = 0
               PROVE  contents = disk
      BY DEF QuietReadIsWhole
  <2>1. /\ contents \in Seq(Char) /\ disk \in Seq(Char)
        /\ Len(contents) = Len(disk)
        /\ \A k \in 1 .. Len(contents) : contents[k] = disk[k]
        BY SavedFiles DEF FileIInv, FileTypeOK, LengthsOK, QuietOK
  <2> QED BY <2>1, SeqEqual
<1> QED BY <1>1, FileInductive, PTL
=============================================================================
