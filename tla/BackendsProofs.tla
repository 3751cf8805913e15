-------------------------- MODULE BackendsProofs --------------------------
(***************************************************************************)
(* Proofs about FileBackend: with one writer, tmp file + rename is atomic  *)
(* for every number of files, failed writes and crashes.  Proofs about         *)
(* DbBackends: with any number of processes, a save of the SQL and Redis   *)
(* backends replaces a collection as a whole.                              *)
(***************************************************************************)
EXTENDS FileBackend, DbBackends, TLAPS

(* A writer has a file to write to, and a document. *)
OpenIsFile ==
    \A w \in Writers : writer[w].pc = "writing" =>
        writer[w].file \in Files /\ writer[w].doc \in Contents

(* The two names refer to different files, both created before. *)
Apart ==
    /\ path # NoFile => path <= files
    /\ tmp # NoFile => tmp <= files
    /\ path # NoFile => path # tmp

(* What writer w has done to <path>.tmp so far. *)
Written(w) ==
    /\ writer[w].pc = "writing" =>
         tmp # NoFile /\ writer[w].file = tmp /\ writer[w].doc \in Contents
    /\ writer[w].pc = "written" =>
         tmp # NoFile /\ writer[w].doc \in Contents /\ data[tmp] = <<"doc", writer[w].doc>>

(* The file a load reads is a whole document. *)
Whole == path # NoFile => \E d \in Contents : data[path] = <<"doc", d>>

SoleInv(w) == Apart /\ Written(w) /\ Whole

-----------------------------------------------------------------------------
LEMMA Moves ==
    ASSUME FileTypeOK, NEW w \in Writers, NEW q \in Writer,
           writer' = [writer EXCEPT ![w] = q]
    PROVE  /\ writer' \in [Writers -> Writer]
           /\ writer'[w] = q
           /\ \A v \in Writers : v # w => writer'[v] = writer[v]
BY DEF FileTypeOK

LEMMA IdleType == Idle \in Writer /\ Idle.pc = "idle"
BY DEF Idle, Writer

LEMMA DataType ==
    ASSUME data \in [Files -> Bytes], NEW f \in Files, NEW b \in Bytes,
           data' = [data EXCEPT ![f] = b]
    PROVE  /\ data' \in [Files -> Bytes]
           /\ data'[f] = b
           /\ \A g \in Files : g # f => data'[g] = data[g]
OBVIOUS

LEMMA BytesType ==
    /\ <<"broken">> \in Bytes
    /\ \A d \in Contents : <<"doc", d>> \in Bytes /\ <<"doc", d>> # <<"broken">>
<1>1. \A d \in Contents : <<"doc", d>> \in {"doc"} \X Contents
  OBVIOUS
<1>2. \A d \in Contents : <<"doc", d>> # <<"broken">>
  OBVIOUS
<1> QED BY <1>1, <1>2, Zenon DEF Bytes

(* The file os.WriteFile opens. *)
LEMMA OpenFile ==
    ASSUME FileTypeOK, NEW w \in Writers, NEW d \in Contents, OpenTmp(w, d)
    PROVE  /\ tmp' \in Files /\ tmp' # NoFile /\ files' \in 0..MaxFiles
           /\ writer'[w] = [pc |-> "writing", file |-> tmp', doc |-> d]
           /\ writer' \in [Writers -> Writer]
           /\ OpenIsFile => OpenIsFile'
<1>1. tmp' \in Files /\ files' \in 0..MaxFiles
  BY FileAssumption DEF OpenTmp, FileTypeOK, Files
<1>2. tmp' # NoFile
  BY <1>1, FileAssumption DEF Files
<1>3. [pc |-> "writing", file |-> tmp', doc |-> d] \in Writer
  BY <1>1 DEF Writer
<1>4. writer' = [writer EXCEPT ![w] = [pc |-> "writing", file |-> tmp', doc |-> d]]
  BY DEF OpenTmp
<1>5. /\ writer' \in [Writers -> Writer]
      /\ writer'[w] = [pc |-> "writing", file |-> tmp', doc |-> d]
      /\ \A v \in Writers : v # w => writer'[v] = writer[v]
  BY <1>3, <1>4, Moves
<1> QED BY <1>1, <1>2, <1>5 DEF OpenIsFile

LEMMA TypeStep ==
    ASSUME FileTypeOK, OpenIsFile, FileNext
    PROVE  FileTypeOK' /\ OpenIsFile'
<1> USE FileAssumption
<1>1. ASSUME NEW w \in Writers, NEW d \in Contents, OpenTmp(w, d)
      PROVE  FileTypeOK' /\ OpenIsFile'
  <2>1. data' \in [Files -> Bytes]
    BY <1>1 DEF OpenTmp, FileTypeOK, Bytes
  <2> QED BY <1>1, <2>1, OpenFile DEF OpenTmp, FileTypeOK
<1>2. ASSUME NEW w \in Writers, writer' = [writer EXCEPT ![w] = Idle]
      PROVE  writer' \in [Writers -> Writer] /\ OpenIsFile'
  BY <1>2, IdleType, Moves DEF OpenIsFile
<1>3. ASSUME NEW w \in Writers, WriteTmp(w)
      PROVE  FileTypeOK' /\ OpenIsFile'
  <2> DEFINE q == [writer[w] EXCEPT !.pc = "written", !.file = NoFile]
  <2>1. writer[w] \in Writer
    BY DEF FileTypeOK
  <2>2. q \in Writer /\ q.pc = "written"
    BY <2>1 DEF Writer
  <2>3. writer' = [writer EXCEPT ![w] = q]
    BY <1>3 DEF WriteTmp, FileTypeOK
  <2> HIDE DEF q
  <2>4. writer' \in [Writers -> Writer] /\ OpenIsFile'
    BY <2>2, <2>3, Moves DEF OpenIsFile
  <2>5. data' \in [Files -> Bytes]
    <3>1. PICK b : data' = [data EXCEPT ![writer[w].file] = b]
                   /\ b \in {<<"doc", writer[w].doc>>, <<"broken">>}
      BY <1>3 DEF WriteTmp
    <3>2. writer[w].file \in Files
      BY <1>3 DEF WriteTmp, OpenIsFile
    <3>3. b \in Bytes
      BY <1>3, <3>1, BytesType DEF WriteTmp, OpenIsFile
    <3> QED BY <3>1, <3>2, <3>3 DEF FileTypeOK
  <2> QED BY <1>3, <2>4, <2>5 DEF WriteTmp, FileTypeOK
<1>4. ASSUME NEW w \in Writers, WriteFails(w)
      PROVE  FileTypeOK' /\ OpenIsFile'
  <2>1. data' \in [Files -> Bytes] /\ fileFaults' \in 0..MaxFileFaults
    <3>1. writer[w].file \in Files
      BY <1>4 DEF WriteFails, OpenIsFile
    <3>2. data' \in [Files -> Bytes]
      BY <1>4, <3>1, BytesType, DataType DEF WriteFails, FileTypeOK
    <3> QED BY <1>4, <3>2 DEF WriteFails, FileTypeOK
  <2> QED BY <1>2, <1>4, <2>1 DEF WriteFails, FileTypeOK
<1>5. ASSUME NEW w \in Writers, Rename(w)
      PROVE  FileTypeOK' /\ OpenIsFile'
  BY <1>2, <1>5 DEF Rename, FileTypeOK
<1>6. ASSUME NEW w \in Writers, Crash(w)
      PROVE  FileTypeOK' /\ OpenIsFile'
  <2>1. fileCrashes' \in 0..MaxFileCrashes
    BY <1>6 DEF Crash, FileTypeOK
  <2> QED BY <1>2, <1>6, <2>1 DEF Crash, FileTypeOK
<1> QED BY <1>1, <1>3, <1>4, <1>5, <1>6 DEF FileNext

(* Every reachable state of FileBackend is well typed: a writer writes only to
   a file it opened. *)
THEOREM FileTypeCorrect == FileSpec => [](FileTypeOK /\ OpenIsFile)
<1>1. FileInit => FileTypeOK /\ OpenIsFile
  <2> SUFFICES ASSUME FileInit PROVE FileTypeOK /\ OpenIsFile
    OBVIOUS
  <2>1. writer \in [Writers -> Writer] /\ \A w \in Writers : writer[w].pc = "idle"
    BY IdleType DEF FileInit
  <2>2. data \in [Files -> Bytes]
    BY BytesType DEF FileInit
  <2> QED BY <2>1, <2>2, FileAssumption DEF FileInit, FileTypeOK, OpenIsFile
<1>2. FileTypeOK /\ OpenIsFile /\ [FileNext]_fileVars => (FileTypeOK /\ OpenIsFile)'
  <2> SUFFICES ASSUME FileTypeOK, OpenIsFile, [FileNext]_fileVars
               PROVE  (FileTypeOK /\ OpenIsFile)'
    OBVIOUS
  <2>1. CASE UNCHANGED fileVars
    BY <2>1 DEF fileVars, FileTypeOK, OpenIsFile
  <2> QED BY <2>1, TypeStep
<1> QED BY <1>1, <1>2, PTL DEF FileSpec

-----------------------------------------------------------------------------
(* What a step of the only writer changes of the file a load reads. *)
Completed(w) ==
    \/ path' = path /\ (path # NoFile => data'[path] = data[path])
    \/ /\ writer[w].pc = "written" /\ writer'[w].pc = "idle"
       /\ path' # NoFile /\ data'[path'] = <<"doc", writer[w].doc>>

Changes ==
    \A d \in Bytes :
         (path' # NoFile /\ data'[path'] = d /\ (path = NoFile \/ data[path] # d)) =>
            \E w \in Writers : writer[w].pc = "written" /\ writer'[w].pc = "idle"
                               /\ d = <<"doc", writer[w].doc>>

LEMMA SoleStep ==
    ASSUME NEW w, Writers = {w}, FileTypeOK, OpenIsFile, SoleInv(w), FileNext
    PROVE  SoleInv(w)' /\ Completed(w)
<1> USE FileAssumption
<1>0. w \in Writers /\ writer[w] \in Writer
  BY DEF FileTypeOK
<1>1. ASSUME NEW d \in Contents, OpenTmp(w, d)
      PROVE  SoleInv(w)' /\ Completed(w)
  <2>1. /\ tmp' \in Files /\ tmp' # NoFile
        /\ writer'[w] = [pc |-> "writing", file |-> tmp', doc |-> d]
    BY <1>0, <1>1, OpenFile
  <2>2. UNCHANGED path
    BY <1>1 DEF OpenTmp
  <2>3. Apart'
    BY <1>1 DEF OpenTmp, Apart, SoleInv, FileTypeOK, Files
  <2>4. path # NoFile => data'[path] = data[path]
    <3>1. path # NoFile => path \in Files /\ path # tmp'
      BY <2>2, <2>3 DEF Apart, FileTypeOK
    <3>2. data' = [data EXCEPT ![tmp'] = <<"broken">>]
      BY <1>1 DEF OpenTmp
    <3> QED BY <2>1, <3>1, <3>2 DEF FileTypeOK
  <2>5. Written(w)'
    BY <2>1 DEF Written
  <2>6. Whole'
    BY <2>2, <2>4 DEF Whole, SoleInv
  <2> QED BY <2>2, <2>3, <2>4, <2>5, <2>6 DEF SoleInv, Completed
<1>2. ASSUME NEW b \in Bytes, writer[w].pc = "writing", UNCHANGED <<path, tmp, files>>,
             data' = [data EXCEPT ![writer[w].file] = b]
      PROVE  /\ Apart' /\ Whole' /\ Completed(w)
             /\ tmp' # NoFile /\ data'[tmp] = b /\ writer[w].doc \in Contents
  <2>1. tmp # NoFile /\ writer[w].file = tmp /\ writer[w].doc \in Contents
    BY <1>2 DEF SoleInv, Written
  <2>2. tmp \in Files
    BY <2>1 DEF FileTypeOK
  <2>3. /\ data'[tmp] = b
        /\ \A g \in Files : g # tmp => data'[g] = data[g]
    BY <1>2, <2>1, <2>2 DEF FileTypeOK
  <2>4. Apart'
    BY <1>2 DEF Apart, SoleInv
  <2>5. path # NoFile => path \in Files /\ path # tmp
    BY DEF Apart, SoleInv, FileTypeOK
  <2>6. path # NoFile => data'[path] = data[path]
    BY <2>3, <2>5
  <2> QED BY <1>2, <2>1, <2>3, <2>4, <2>6 DEF Whole, SoleInv, Completed
<1>3. CASE WriteTmp(w)
  <2> DEFINE b == <<"doc", writer[w].doc>>
  <2>1. writer[w].pc = "writing" /\ writer[w].doc \in Contents
    BY <1>0, <1>3 DEF WriteTmp, OpenIsFile
  <2>2. b \in Bytes
    BY <2>1, BytesType
  <2>3. data' = [data EXCEPT ![writer[w].file] = b] /\ UNCHANGED <<path, tmp, files>>
    BY <1>3 DEF WriteTmp
  <2>4. writer'[w].pc = "written" /\ writer'[w].doc = writer[w].doc
    BY <1>0, <1>3 DEF WriteTmp, FileTypeOK, Writer
  <2>5. /\ Apart' /\ Whole' /\ Completed(w)
        /\ tmp' # NoFile /\ data'[tmp] = b
    BY <1>2, <2>1, <2>2, <2>3
  <2>6. Written(w)'
    BY <2>1, <2>3, <2>4, <2>5 DEF Written
  <2> QED BY <2>5, <2>6 DEF SoleInv
<1>4. ASSUME writer' = [writer EXCEPT ![w] = Idle]
      PROVE  writer'[w].pc = "idle" /\ Written(w)'
  BY <1>0, <1>4, IdleType, Moves DEF Written
<1>5. CASE WriteFails(w)
  <2>1. Apart' /\ Whole' /\ Completed(w)
    BY <1>2, <1>5, BytesType DEF WriteFails
  <2> QED BY <1>4, <1>5, <2>1 DEF WriteFails, SoleInv
<1>6. CASE Rename(w)
  <2>1. /\ tmp # NoFile /\ writer[w].doc \in Contents
        /\ data[tmp] = <<"doc", writer[w].doc>>
    BY <1>6 DEF Rename, SoleInv, Written
  <2>2. path' = tmp /\ tmp' = NoFile /\ UNCHANGED <<data, files>>
    BY <1>6, <2>1 DEF Rename
  <2>3. Apart'
    BY <2>1, <2>2 DEF Apart, SoleInv
  <2>4. Whole' /\ Completed(w)
    BY <1>4, <1>6, <2>1, <2>2 DEF Whole, Completed, Rename
  <2> QED BY <1>4, <1>6, <2>3, <2>4 DEF Rename, SoleInv
<1>7. CASE Crash(w)
  <2>1. UNCHANGED <<path, tmp, data, files>>
    BY <1>7 DEF Crash
  <2> QED BY <1>4, <1>7, <2>1 DEF Crash, SoleInv, Apart, Whole, Completed
<1> QED BY <1>1, <1>3, <1>5, <1>6, <1>7 DEF FileNext

LEMMA SoleInvariant ==
    ASSUME NEW CONSTANT w, Writers = {w}
    PROVE  FileSpec => []SoleInv(w)
<1>1. FileInit => SoleInv(w)
  <2> SUFFICES ASSUME FileInit PROVE SoleInv(w)
    OBVIOUS
  <2>1. writer[w].pc = "idle"
    BY IdleType DEF FileInit
  <2> QED BY <2>1 DEF FileInit, SoleInv, Apart, Written, Whole
<1>2. FileTypeOK /\ OpenIsFile /\ SoleInv(w) /\ [FileNext]_fileVars => SoleInv(w)'
  <2> SUFFICES ASSUME FileTypeOK, OpenIsFile, SoleInv(w), [FileNext]_fileVars
               PROVE  SoleInv(w)'
    OBVIOUS
  <2>1. CASE UNCHANGED fileVars
    BY <2>1 DEF fileVars, SoleInv, Apart, Written, Whole
  <2> QED BY <2>1, SoleStep
<1> QED BY <1>1, <1>2, FileTypeCorrect, PTL DEF FileSpec

(* "Writes are atomic (tmp file + rename)" (state/file.go), for one process:
   whatever write fails or is cut short, the next load finds a document. *)
THEOREM OneWriterIsAtomic ==
    ASSUME NEW CONSTANT w, Writers = {w}
    PROVE  FileSpec => []AlwaysLoadable
<1>1. SoleInv(w) => AlwaysLoadable
  BY BytesType DEF SoleInv, Whole, AlwaysLoadable
<1> QED BY <1>1, SoleInvariant, PTL

(* ... and it finds the document of the last write that was completed: no
   other step of writeFile changes what a load returns. *)
THEOREM LoadsCompletedWrites ==
    ASSUME NEW CONSTANT w, Writers = {w}
    PROVE  FileSpec => OnlyCompletedWrites
<1>1. ASSUME FileTypeOK, OpenIsFile, SoleInv(w), [FileNext]_fileVars
      PROVE  [Changes]_fileVars
  <2>1. CASE UNCHANGED fileVars
    BY <2>1
  <2>2. CASE FileNext
    <3>1. Completed(w)
      BY <2>2, <1>1, SoleStep
    <3> QED BY <3>1 DEF Completed, Changes
  <2> QED BY <1>1, <2>1, <2>2
<1>2. FileTypeOK /\ OpenIsFile /\ SoleInv(w) /\ [FileNext]_fileVars => [Changes]_fileVars
  BY <1>1
<1>3. FileSpec => [][Changes]_fileVars
  BY <1>2, FileTypeCorrect, SoleInvariant, PTL DEF FileSpec
<1> QED BY <1>3 DEF OnlyCompletedWrites, Changes

-----------------------------------------------------------------------------
(* The SQL and Redis backends *)

(* The rows of a transaction that are in are those of the document, and at its
   commit they are all of them; nothing is returned before the first save. *)
RowsOK(p) ==
    /\ db[p].pc = "insert" =>
         /\ DOMAIN db[p].rows \subseteq DOMAIN db[p].doc
         /\ \A k \in DOMAIN db[p].rows : db[p].rows[k] = db[p].doc[k]
    /\ db[p].pc = "commit" => db[p].rows = db[p].doc
    /\ db[p].pc = "delete" => db[p].rows = NoDoc
    /\ db[p].pc \in {"closed", "ping", "load"} => db[p].res = "none"

DbInv ==
    /\ DbTypeOK
    /\ \A p \in DbProcs : RowsOK(p)
    /\ TableIsFree

LEMMA DocsDef == \A d : d \in Docs <=> \E S \in SUBSET DbKeys : d \in [S -> DbValues]
BY DEF Docs

LEMMA NoDocType == NoDoc \in Docs /\ DOMAIN NoDoc = {}
<1>1. NoDoc \in [{} -> DbValues] /\ DOMAIN NoDoc = {}
  BY DEF NoDoc
<1> QED BY <1>1, DocsDef

(* One more row of the document. *)
LEMMA RowType ==
    ASSUME NEW doc \in Docs, NEW rows \in Docs, NEW k \in DOMAIN doc,
           DOMAIN rows \subseteq DOMAIN doc
    PROVE  /\ [j \in DOMAIN rows \cup {k} |-> doc[j]] \in Docs
           /\ DOMAIN [j \in DOMAIN rows \cup {k} |-> doc[j]] \subseteq DOMAIN doc
<1>1. PICK S \in SUBSET DbKeys : doc \in [S -> DbValues]
  BY DocsDef
<1> DEFINE T == DOMAIN rows \cup {k}
<1>2. T \subseteq S /\ T \in SUBSET DbKeys
  BY <1>1
<1>3. [j \in T |-> doc[j]] \in [T -> DbValues]
  BY <1>1, <1>2
<1> QED BY <1>1, <1>2, <1>3, DocsDef

(* Documents with the same rows are the same. *)
LEMMA SameRows ==
    ASSUME NEW d \in Docs, NEW e \in Docs, DOMAIN d = DOMAIN e,
           \A k \in DOMAIN d : d[k] = e[k]
    PROVE  d = e
<1>1. PICK S \in SUBSET DbKeys : d \in [S -> DbValues]
  BY DocsDef
<1>2. PICK T \in SUBSET DbKeys : e \in [T -> DbValues]
  BY DocsDef
<1>3. S = T
  BY <1>1, <1>2
<1>4. e \in [S -> DbValues] /\ \A k \in S : d[k] = e[k]
  BY <1>1, <1>2, <1>3
<1> QED BY <1>1, <1>4

LEMMA ClosedType == Closed \in DbProc /\ Closed.pc = "closed" /\ Closed.res = "none"
BY NoDocType DEF Closed, DbProc

LEMMA DbInitInv == DbInit => DbInv
BY ClosedType, NoDocType, DbAssumption DEF DbInit, DbInv, DbTypeOK, RowsOK, TableIsFree

(* One process moves, and its rows and its hold on the table are right. *)
LEMMA DbMove ==
    ASSUME DbInv, NEW p \in DbProcs, NEW q \in DbProc,
           db' = [db EXCEPT ![p] = q],
           q.pc = "insert" =>
             /\ DOMAIN q.rows \subseteq DOMAIN q.doc
             /\ \A k \in DOMAIN q.rows : q.rows[k] = q.doc[k],
           q.pc = "commit" => q.rows = q.doc,
           q.pc = "delete" => q.rows = NoDoc,
           q.pc \in {"closed", "ping", "load"} => q.res = "none",
           locked' \subseteq locked \cup {p},
           p \in locked' => \/ q.pc \in {"insert", "commit", "rollback"}
                            \/ kind = "sqlite" /\ q.pc = "stuck",
           table' \in Docs, kind' = kind, errors' \in 0..MaxErrors, deaths' \in 0..MaxDeaths
    PROVE  DbInv'
<1>1. db' \in [DbProcs -> DbProc] /\ db'[p] = q /\ \A r \in DbProcs : r # p => db'[r] = db[r]
  BY DEF DbInv, DbTypeOK
<1>2. DbTypeOK'
  BY <1>1 DEF DbInv, DbTypeOK
<1>3. \A r \in DbProcs : RowsOK(r)'
  BY <1>1 DEF DbInv, RowsOK
<1>4. TableIsFree'
  BY <1>1 DEF DbInv, TableIsFree, DbTypeOK
<1> QED BY <1>2, <1>3, <1>4 DEF DbInv

(* What a step does that moves one process. *)
DbMoves(p, q) ==
    /\ db' = [db EXCEPT ![p] = q]
    /\ q.pc = "insert" =>
         /\ DOMAIN q.rows \subseteq DOMAIN q.doc
         /\ \A k \in DOMAIN q.rows : q.rows[k] = q.doc[k]
    /\ q.pc = "commit" => q.rows = q.doc
    /\ q.pc = "delete" => q.rows = NoDoc
    /\ q.pc \in {"closed", "ping", "load"} => q.res = "none"
    /\ locked' \subseteq locked \cup {p}
    /\ p \in locked' => \/ q.pc \in {"insert", "commit", "rollback"}
                        \/ kind = "sqlite" /\ q.pc = "stuck"
    /\ table' \in Docs /\ kind' = kind /\ errors' \in 0..MaxErrors /\ deaths' \in 0..MaxDeaths
    /\ table' # table => db[p].pc \in {"commit", "set"} /\ table' = db[p].doc
    /\ (db[p].pc # "idle" /\ q.pc = "idle" /\ q.res = "ok") =>
         table' = db[p].doc

LEMMA DbCases ==
    ASSUME DbInv, NEW p \in DbProcs,
           \/ OpenDb(p) \/ Connect(p) \/ LoadSQL(p) \/ LoadRedis(p)
           \/ \E d \in Docs : Begin(p, d)
           \/ DeleteRows(p) \/ InsertRow(p) \/ Commit(p) \/ CommitBusy(p) \/ Rollback(p)
           \/ Set(p) \/ Die(p)
    PROVE  \E q \in DbProc : DbMoves(p, q)
<1> USE DbAssumption
<1>1. /\ db[p] \in DbProc /\ db[p].doc \in Docs /\ db[p].rows \in Docs
      /\ table \in Docs /\ errors \in 0..MaxErrors /\ deaths \in 0..MaxDeaths
      /\ db \in [DbProcs -> DbProc]
      /\ RowsOK(p)
      /\ p \in locked => db[p].pc \in {"insert", "commit", "rollback", "stuck"}
  BY DEF DbInv, DbTypeOK, DbProc, TableIsFree
<1>2. Error => errors' \in 0..MaxErrors
  BY <1>1 DEF Error
<1>3. ASSUME NEW s \in {"closed", "ping", "load", "idle", "delete", "insert", "commit",
                        "rollback", "set"},
             Goto(p, s)
      PROVE  /\ [db[p] EXCEPT !.pc = s] \in DbProc
             /\ db' = [db EXCEPT ![p] = [db[p] EXCEPT !.pc = s]]
             /\ [db[p] EXCEPT !.pc = s].pc = s
             /\ [db[p] EXCEPT !.pc = s].doc = db[p].doc
             /\ [db[p] EXCEPT !.pc = s].rows = db[p].rows
             /\ [db[p] EXCEPT !.pc = s].res = db[p].res
  BY <1>1, <1>3 DEF Goto, DbProc
<1>4. ASSUME NEW s \in {"closed", "ping", "load", "rollback"}, Goto(p, s),
             UNCHANGED <<kind, table, deaths>>, errors' \in 0..MaxErrors, locked' = locked,
             p \in locked => s = "rollback",
             s = "rollback" \/ db[p].pc \in {"closed", "ping", "load"}
      PROVE  \E q \in DbProc : DbMoves(p, q)
  <2> DEFINE q == [db[p] EXCEPT !.pc = s]
  <2>1. q \in DbProc /\ db' = [db EXCEPT ![p] = q] /\ q.pc = s /\ q.res = db[p].res
    BY <1>3, <1>4
  <2> HIDE DEF q
  <2>9. DbMoves(p, q)
    BY <1>1, <1>4, <2>1 DEF DbMoves, RowsOK
  <2> QED BY <2>9, <2>1
<1>5. CASE OpenDb(p)
  BY <1>1, <1>4, <1>5 DEF OpenDb
<1>6. CASE Connect(p)
  BY <1>1, <1>2, <1>4, <1>6 DEF Connect
<1>7. ASSUME Loaded(p, table) PROVE \E q \in DbProc : DbMoves(p, q)
  <2>1. CASE Goto(p, "closed") /\ Error
    BY <1>1, <1>2, <1>4, <1>7, <2>1 DEF Loaded
  <2>2. CASE db' = [db EXCEPT ![p].pc = "idle", ![p].doc = table] /\ UNCHANGED errors
    <3> DEFINE q == [db[p] EXCEPT !.pc = "idle", !.doc = table]
    <3>1. q \in DbProc /\ q.pc = "idle" /\ q.res = "none"
      BY <1>1, <1>7 DEF DbProc, Loaded, RowsOK
    <3>2. db' = [db EXCEPT ![p] = q]
      BY <1>1, <2>2 DEF DbProc
    <3> HIDE DEF q
    <3>9. DbMoves(p, q)
      BY <1>1, <1>7, <2>2, <3>1, <3>2 DEF DbMoves, Loaded
    <3> QED BY <3>9, <3>1
  <2> QED BY <1>7, <2>1, <2>2 DEF Loaded
<1>8. ASSUME NEW d \in Docs, Begin(p, d) PROVE \E q \in DbProc : DbMoves(p, q)
  <2> DEFINE s == IF kind = "redis" THEN "set" ELSE "delete"
             q == [db[p] EXCEPT !.pc = s, !.doc = d, !.rows = NoDoc, !.res = "none"]
  <2>1. q \in DbProc /\ q.pc = s /\ q.rows = NoDoc
    BY <1>1, NoDocType DEF DbProc
  <2>2. db' = [db EXCEPT ![p] = q]
    BY <1>8 DEF Begin
  <2> HIDE DEF q
  <2>9. DbMoves(p, q)
    BY <1>1, <1>8, <2>1, <2>2 DEF DbMoves, Begin
  <2> QED BY <2>9, <2>1
<1>9. CASE DeleteRows(p)
  <2>1. CASE locked = {} /\ locked' = {p} /\ Goto(p, "insert") /\ UNCHANGED errors
    <3> DEFINE q == [db[p] EXCEPT !.pc = "insert"]
    <3>1. q \in DbProc /\ db' = [db EXCEPT ![p] = q] /\ q.pc = "insert"
          /\ q.doc = db[p].doc /\ q.rows = db[p].rows
      BY <1>3, <2>1
    <3>2. db[p].rows = NoDoc
      BY <1>1, <1>9 DEF DeleteRows, RowsOK
    <3> HIDE DEF q
    <3>9. DbMoves(p, q)
      BY <1>1, <1>9, <2>1, <3>1, <3>2, NoDocType DEF DbMoves, DeleteRows
    <3> QED BY <3>9, <3>1
  <2> QED BY <1>1, <1>2, <1>4, <1>9, <2>1 DEF DeleteRows
<1>10. CASE InsertRow(p)
  <2>0. db[p].pc = "insert" /\ UNCHANGED <<kind, table, locked, deaths>>
    BY <1>10 DEF InsertRow
  <2>1. ASSUME NEW k \in DOMAIN db[p].doc,
               db' = [db EXCEPT ![p].rows = [j \in DOMAIN db[p].rows \cup {k} |-> db[p].doc[j]]],
               UNCHANGED errors
        PROVE  \E q \in DbProc : DbMoves(p, q)
    <3> DEFINE rows == [j \in DOMAIN db[p].rows \cup {k} |-> db[p].doc[j]]
               q == [db[p] EXCEPT !.rows = rows]
    <3>1. rows \in Docs /\ DOMAIN rows \subseteq DOMAIN db[p].doc
          /\ \A j \in DOMAIN rows : rows[j] = db[p].doc[j]
      BY <1>1, <2>0, RowType DEF RowsOK
    <3> HIDE DEF rows
    <3>2. q \in DbProc /\ q.pc = "insert" /\ q.doc = db[p].doc /\ q.rows = rows
      BY <1>1, <2>0, <3>1 DEF DbProc
    <3>3. db' = [db EXCEPT ![p] = q]
      BY <1>1, <2>1 DEF rows
    <3> HIDE DEF q
    <3>9. DbMoves(p, q)
      BY <1>1, <2>0, <2>1, <3>1, <3>2, <3>3 DEF DbMoves
    <3> QED BY <3>9, <3>2
  <2>2. CASE DOMAIN db[p].doc \ DOMAIN db[p].rows = {} /\ Goto(p, "commit") /\ UNCHANGED errors
    <3> DEFINE q == [db[p] EXCEPT !.pc = "commit"]
    <3>1. q \in DbProc /\ db' = [db EXCEPT ![p] = q] /\ q.pc = "commit"
          /\ q.doc = db[p].doc /\ q.rows = db[p].rows
      BY <1>3, <2>2
    <3>2. DOMAIN db[p].rows = DOMAIN db[p].doc
          /\ \A k \in DOMAIN db[p].rows : db[p].rows[k] = db[p].doc[k]
      BY <1>1, <2>0, <2>2 DEF RowsOK
    <3>3. db[p].rows = db[p].doc
      BY <1>1, <3>2, SameRows
    <3> HIDE DEF q
    <3>9. DbMoves(p, q)
      BY <1>1, <2>0, <2>2, <3>1, <3>3 DEF DbMoves
    <3> QED BY <3>9, <3>1
  <2>3. CASE Goto(p, "rollback") /\ Error
    BY <1>1, <1>2, <1>4, <2>0, <2>3
  <2> QED BY <1>10, <2>1, <2>2, <2>3 DEF InsertRow
<1>11. ASSUME NEW r \in {"ok", "error"},
              db' = [db EXCEPT ![p] = Returned(p, r)], locked' = locked \ {p},
              db[p].pc \in {"commit", "rollback", "set"},
              table' \in {table, db[p].doc},
              table' # table => db[p].pc # "rollback",
              r = "ok" => table' = db[p].doc,
              UNCHANGED <<kind, deaths>>, errors' \in 0..MaxErrors
       PROVE  \E q \in DbProc : DbMoves(p, q)
  <2> DEFINE q == [db[p] EXCEPT !.pc = "idle", !.rows = NoDoc, !.res = r]
  <2>1. q \in DbProc /\ q.pc = "idle" /\ q.res = r
    BY <1>1, NoDocType DEF DbProc
  <2>2. db' = [db EXCEPT ![p] = q]
    BY <1>11 DEF Returned
  <2> HIDE DEF q
  <2>9. DbMoves(p, q)
    BY <1>1, <1>11, <2>1, <2>2 DEF DbMoves
  <2> QED BY <2>9, <2>1
<1>12. CASE Commit(p)
  <2>1. db[p].pc = "commit" /\ db[p].rows = db[p].doc
    BY <1>1, <1>12 DEF Commit, RowsOK
  <2> QED BY <1>1, <1>2, <1>11, <1>12, <2>1 DEF Commit
<1>13. CASE Rollback(p)
  BY <1>1, <1>11, <1>13 DEF Rollback
<1>14. CASE Set(p)
  <2>1. db[p].pc = "set" /\ locked' = locked \ {p}
    BY <1>1, <1>14 DEF Set
  <2> QED BY <1>1, <1>2, <1>11, <1>14, <2>1 DEF Set
<1>15. CASE Die(p)
  <2>1. DbMoves(p, Closed)
    BY <1>1, <1>15, ClosedType DEF Die, DbMoves
  <2> QED BY <2>1, ClosedType
<1>16. CASE CommitBusy(p)
  <2> DEFINE q == [db[p] EXCEPT !.pc = "stuck", !.rows = NoDoc, !.res = "error"]
  <2>1. q \in DbProc /\ q.pc = "stuck"
    BY <1>1, NoDocType DEF DbProc
  <2>2. db' = [db EXCEPT ![p] = q]
    BY <1>1, <1>16 DEF CommitBusy, Returned, DbProc
  <2> HIDE DEF q
  <2>9. DbMoves(p, q)
    BY <1>1, <1>2, <1>16, <2>1, <2>2 DEF DbMoves, CommitBusy
  <2> QED BY <2>9, <2>1
<1> QED BY <1>5, <1>6, <1>7, <1>8, <1>9, <1>10, <1>12, <1>13, <1>14, <1>15, <1>16 DEF LoadSQL, LoadRedis

LEMMA DbStep ==
    ASSUME DbInv, [DbNext]_dbVars
    PROVE  DbInv' /\ (UNCHANGED dbVars \/ (SaveIsWhole /\ ReturnIsStored))
<1>1. CASE UNCHANGED dbVars
  BY <1>1 DEF dbVars, DbInv, DbTypeOK, RowsOK, TableIsFree
<1>2. ASSUME NEW p \in DbProcs, NEW q \in DbProc, DbMoves(p, q)
      PROVE  DbInv' /\ SaveIsWhole /\ ReturnIsStored
  <2>1. DbInv'
    BY <1>2, DbMove DEF DbMoves
  <2>2. SaveIsWhole
    BY <1>2 DEF DbMoves, SaveIsWhole
  <2>3. ReturnIsStored
    BY <1>2 DEF DbMoves, ReturnIsStored, DbInv, DbTypeOK
  <2> QED BY <2>1, <2>2, <2>3
<1>3. CASE DbNext
  <2>1. PICK p \in DbProcs :
           \/ OpenDb(p) \/ Connect(p) \/ LoadSQL(p) \/ LoadRedis(p)
           \/ \E d \in Docs : Begin(p, d)
           \/ DeleteRows(p) \/ InsertRow(p) \/ Commit(p) \/ CommitBusy(p) \/ Rollback(p)
           \/ Set(p) \/ Die(p)
    BY <1>3 DEF DbNext
  <2>2. \E q \in DbProc : DbMoves(p, q)
    BY <2>1, DbCases
  <2> QED BY <1>2, <2>2
<1> QED BY <1>1, <1>3

(* With any number of processes on one SQL or Redis database, failed statements,
   lost answers and deaths: sqlBackend's and redisBackend's saves replace a
   collection as a whole, a save that returned nil is committed, and no dead or
   failed save keeps the table. *)
THEOREM DbSavesAreWhole == DbSpec => SavesAreWhole
<1>1. DbInit => DbInv
  BY DbInitInv
<1>2. DbInv /\ [DbNext]_dbVars => DbInv'
  BY DbStep
<1>3. DbInv /\ [DbNext]_dbVars => [SaveIsWhole /\ ReturnIsStored /\ TableIsFree]_dbVars
  BY DbStep DEF DbInv
<1> QED BY <1>1, <1>2, <1>3, PTL DEF DbSpec, SavesAreWhole
=============================================================================
