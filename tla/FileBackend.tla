----------------------------- MODULE FileBackend -----------------------------
(***************************************************************************)
(* writeFile and loadFileMap of internal/state/file.go: a collection is    *)
(* written to <path>.tmp and renamed over <path>.  All processes use the   *)
(* same two names.                                                         *)
(***************************************************************************)
EXTENDS Naturals

CONSTANTS
    Writers,     \* processes; the store's mutex lets each save one at a time
    Contents,    \* JSON documents
    NoFile,        \* "no such file"
    MaxFiles,    \* bound: files (inodes) created
    MaxFileFaults,   \* bound: writes that fail (a full disk)
    MaxFileCrashes   \* bound: writers that die

ASSUME FileAssumption ==
    /\ NoFile \notin Contents \cup (1..MaxFiles)
    /\ {MaxFiles, MaxFileFaults, MaxFileCrashes} \subseteq Nat

VARIABLES
    path,      \* the file the collection's name refers to
    tmp,       \* the file <path>.tmp refers to
    data,      \* the bytes of each file: a document, or a broken one
    files,     \* files created so far
    writer,    \* what each process is doing
    fileFaults, fileCrashes

fileVars == <<path, tmp, data, files, writer, fileFaults, fileCrashes>>

-----------------------------------------------------------------------------
Files == 1..MaxFiles

Bytes == {<<"broken">>} \cup ({"doc"} \X Contents)

Writer == [pc   : {"idle", "writing", "written"},
           file : Files \cup {NoFile},      \* the file it has open
           doc  : Contents \cup {NoFile}]

FileTypeOK ==
    /\ path \in Files \cup {NoFile}
    /\ tmp \in Files \cup {NoFile}
    /\ data \in [Files -> Bytes]
    /\ files \in 0..MaxFiles
    /\ writer \in [Writers -> Writer]
    /\ fileFaults \in 0..MaxFileFaults
    /\ fileCrashes \in 0..MaxFileCrashes

Idle == [pc |-> "idle", file |-> NoFile, doc |-> NoFile]

FileInit ==
    /\ path = NoFile
    /\ tmp = NoFile
    /\ data = [f \in Files |-> <<"broken">>]
    /\ files = 0
    /\ writer = [w \in Writers |-> Idle]
    /\ fileFaults = 0
    /\ fileCrashes = 0

-----------------------------------------------------------------------------
(* Mutant: the document is written to the collection's own name. *)
OpenInPlace(w, d) ==
    /\ writer[w].pc = "idle"
    /\ \/ /\ path = NoFile
          /\ files < MaxFiles
          /\ files' = files + 1
          /\ path' = files + 1
       \/ path # NoFile /\ UNCHANGED <<path, files>>
    /\ tmp' = path'
    /\ data' = [data EXCEPT ![path'] = <<"broken">>]
    /\ writer' = [writer EXCEPT ![w] = [pc |-> "writing", file |-> path', doc |-> d]]
    /\ UNCHANGED <<fileFaults, fileCrashes>>

(* os.WriteFile opens <path>.tmp, creating or truncating it. *)
OpenTmp(w, d) ==
    /\ writer[w].pc = "idle"
    /\ \/ /\ tmp = NoFile
          /\ files < MaxFiles
          /\ files' = files + 1
          /\ tmp' = files + 1
       \/ tmp # NoFile /\ UNCHANGED <<tmp, files>>
    /\ data' = [data EXCEPT ![tmp'] = <<"broken">>]
    /\ writer' = [writer EXCEPT ![w] = [pc |-> "writing", file |-> tmp', doc |-> d]]
    /\ UNCHANGED <<path, fileFaults, fileCrashes>>

(* ... and writes the document.  Two processes that have the same file open
   mix their bytes. *)
WriteTmp(w) ==
    /\ writer[w].pc = "writing"
    /\ \E b \in {<<"doc", writer[w].doc>>} \cup
                (IF \E v \in Writers \ {w} : writer[v].file = writer[w].file
                 THEN {<<"broken">>} ELSE {}) :
         data' = [data EXCEPT ![writer[w].file] = b]
    /\ writer' = [writer EXCEPT ![w].pc = "written", ![w].file = NoFile]
    /\ UNCHANGED <<path, tmp, files, fileFaults, fileCrashes>>

(* ... or part of it: the error ends the save before the rename. *)
WriteFails(w) ==
    /\ writer[w].pc = "writing"
    /\ fileFaults < MaxFileFaults
    /\ fileFaults' = fileFaults + 1
    /\ data' = [data EXCEPT ![writer[w].file] = <<"broken">>]
    /\ writer' = [writer EXCEPT ![w] = Idle]
    /\ UNCHANGED <<path, tmp, files, fileCrashes>>

(* os.Rename; it fails when there is no <path>.tmp, and the save with it. *)
Rename(w) ==
    /\ writer[w].pc = "written"
    /\ \/ tmp # NoFile /\ path' = tmp /\ tmp' = NoFile
       \/ tmp = NoFile /\ UNCHANGED <<path, tmp>>
    /\ writer' = [writer EXCEPT ![w] = Idle]
    /\ UNCHANGED <<data, files, fileFaults, fileCrashes>>

(* The process dies; what it wrote stays. *)
Crash(w) ==
    /\ writer[w].pc # "idle"
    /\ fileCrashes < MaxFileCrashes
    /\ fileCrashes' = fileCrashes + 1
    /\ writer' = [writer EXCEPT ![w] = Idle]
    /\ UNCHANGED <<path, tmp, data, files, fileFaults>>

FileNext ==
    \/ \E w \in Writers, d \in Contents : OpenTmp(w, d)
    \/ \E w \in Writers : WriteTmp(w)
    \/ \E w \in Writers : WriteFails(w)
    \/ \E w \in Writers : Rename(w)
    \/ \E w \in Writers : Crash(w)

FileSpec == FileInit /\ [][FileNext]_fileVars

-----------------------------------------------------------------------------
(* Correctness *)

(* "Writes are atomic (tmp file + rename)": loadFileMap never meets a broken
   document, whatever writes are going on or were cut short by a crash. *)
AlwaysLoadable == path # NoFile => data[path] # <<"broken">>

(* What is loaded changes only when a write is completed, and then to the
   document written. *)
OnlyCompletedWrites ==
    [][\A d \in Bytes :
         (path' # NoFile /\ data'[path'] = d /\ (path = NoFile \/ data[path] # d)) =>
            \E w \in Writers : writer[w].pc = "written" /\ writer'[w].pc = "idle"
                               /\ d = <<"doc", writer[w].doc>>]_fileVars
=============================================================================
