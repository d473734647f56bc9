--------------------------- MODULE DownloadObject ----------------------------
(***************************************************************************)
(* DownloadObject: StatObject for the etag, a temporary file named after   *)
(* it, a GET written to that file chunk by chunk, and a rename.  Other     *)
(* clients replace and remove the object meanwhile; downloads break off    *)
(* and are repeated, so that temporary files of earlier calls are met.     *)
(*                                                                         *)
(* A version of the object is a number, its data the pieces <<version, 1>>,*)
(* <<version, 2>> ...; its etag is its number.  A file is an inode with a  *)
(* sequence of pieces; a name may be linked to an inode, and an open       *)
(* stream keeps its inode when the name moves.                             *)
(***************************************************************************)
EXTENDS Integers, Sequences

CONSTANTS
  Threads,
  Size,          \* the versions' sizes in pieces, a sequence
  None,          \* no object, no file, no stream
  DiskFull,      \* may a write fail?
  MaxCalls, MaxChanges

ASSUME DownloadAssumption ==
  /\ Size \in Seq(Nat)
  /\ None \notin Int
  /\ DiskFull \in BOOLEAN
  /\ MaxCalls \in Nat /\ MaxChanges \in Nat

Versions == DOMAIN Size
Data(v) == [i \in 1 .. Size[v] |-> <<v, i>>]

\* What the file may hold before the first download.
OldData == <<<<0, 1>>>>

\* Bytes nobody wrote.
Hole == <<0, 0>>

\* args.filename, and the name with ".<etag>.part.minio" for each etag.
filename == 0
temp_filename(etag) == etag
Names == {filename} \cup Versions

VARIABLES
  object,      \* the server: the current version, or None
  changes,
  calls,       \* downloads begun so far
  dir,         \* per name: its inode, or None
  inode,       \* the contents of every inode made so far
  pc,          \* per thread: where its download is
  overwrite,
  etag,        \* what StatObject said
  fout,        \* the inode its stream writes to
  bad,         \* a write to the stream has failed
  holed,       \* history: the inodes such a write was meant for
  body,        \* the pieces of the answer not yet received
  pos,         \* position of the stream
  result,      \* of the last download: "none", "success", "error" or "threw"
  seen         \* history: the versions the object had during the call

serverVars == <<object, changes>>
fileVars == <<dir, inode, holed>>
threadVars == <<pc, overwrite, etag, fout, bad, body, pos, result, seen>>
vars == <<serverVars, calls, fileVars, threadVars>>

Init ==
  /\ object \in Versions
  /\ changes = 0
  /\ calls = 0
  /\ \/ inode = <<>> /\ dir = [n \in Names |-> None]
     \/ inode = <<OldData>> /\ dir = [n \in Names |-> IF n = filename THEN 1 ELSE None]
  /\ holed = {}
  /\ pc = [t \in Threads |-> "idle"]
  /\ overwrite = [t \in Threads |-> FALSE]
  /\ etag = [t \in Threads |-> None]
  /\ fout = [t \in Threads |-> None]
  /\ bad = [t \in Threads |-> FALSE]
  /\ body = [t \in Threads |-> <<>>]
  /\ pos = [t \in Threads |-> 0]
  /\ result = [t \in Threads |-> "none"]
  /\ seen = [t \in Threads |-> {}]

\* Another client replaces or removes the object.
Change(v) ==
  /\ changes < MaxChanges
  /\ v # object
  /\ changes' = changes + 1
  /\ object' = v
  /\ seen' = [t \in Threads |-> seen[t] \cup {v}]
  /\ UNCHANGED <<calls, fileVars, pc, overwrite, etag, fout, bad, body, pos, result>>

----------------------------------------------------------------------------
(* The download.                                                            *)

Goto(t, label) == pc' = [pc EXCEPT ![t] = label]

\* The call is over; the stream is closed if it was open.
Return(t, r) ==
  /\ Goto(t, "idle")
  /\ result' = [result EXCEPT ![t] = r]
  /\ etag' = [etag EXCEPT ![t] = None]
  /\ fout' = [fout EXCEPT ![t] = None]
  /\ bad' = [bad EXCEPT ![t] = FALSE]
  /\ body' = [body EXCEPT ![t] = <<>>]
  /\ pos' = [pos EXCEPT ![t] = 0]

\* A call.  DownloadObjectArgs leaves overwrite uninitialized: a caller that does
\* not set it passes either value.
Call(t) ==
  /\ pc[t] = "idle"
  /\ calls < MaxCalls
  /\ calls' = calls + 1
  /\ \E o \in BOOLEAN : overwrite' = [overwrite EXCEPT ![t] = o]
  /\ result' = [result EXCEPT ![t] = "none"]
  /\ seen' = [seen EXCEPT ![t] = {object}]
  /\ Goto(t, "validate")
  /\ UNCHANGED <<serverVars, fileVars, etag, fout, bad, body, pos>>

Validate(t) ==
  /\ pc[t] = "validate"
  /\ IF ~overwrite[t] /\ dir[filename] # None
       THEN Return(t, "error")
       ELSE Goto(t, "stat") /\ UNCHANGED <<result, etag, fout, bad, body, pos>>
  /\ UNCHANGED <<serverVars, calls, fileVars, overwrite, seen>>

StatObject(t) ==
  /\ pc[t] = "stat"
  /\ object # None
  /\ etag' = [etag EXCEPT ![t] = object]
  /\ Goto(t, "open")
  /\ UNCHANGED <<serverVars, calls, fileVars, overwrite, fout, bad, body, pos,
                 result, seen>>

\* A new file.
Create(t, name) ==
  /\ inode' = Append(inode, <<>>)
  /\ dir' = [dir EXCEPT ![name] = Len(inode) + 1]
  /\ fout' = [fout EXCEPT ![t] = Len(inode) + 1]
  /\ UNCHANGED holed

\* What an earlier call left in the temporary file is kept.
Truncate_Keeps(t, name) ==
  /\ UNCHANGED <<inode, dir, holed>>
  /\ fout' = [fout EXCEPT ![t] = dir[name]]

\* One that is there is emptied (std::ios::trunc).
Truncate(t, name) ==
  /\ inode' = [inode EXCEPT ![dir[name]] = <<>>]
  /\ holed' = holed \ {dir[name]}
  /\ fout' = [fout EXCEPT ![t] = dir[name]]
  /\ UNCHANGED dir

Open(t) ==
  /\ pc[t] = "open"
  /\ LET name == temp_filename(etag[t]) IN
       IF dir[name] = None THEN Create(t, name) ELSE Truncate(t, name)
  /\ Goto(t, "get")
  /\ UNCHANGED <<serverVars, calls, overwrite, etag, bad, body, pos, result, seen>>

\* The GET is answered with the version the object has now.
Get(t) ==
  /\ pc[t] = "get"
  /\ object # None
  /\ body' = [body EXCEPT ![t] = Data(object)]
  /\ Goto(t, "write")
  /\ UNCHANGED <<serverVars, calls, fileVars, overwrite, etag, fout, bad, pos,
                 result, seen>>

\* The stream puts piece p at its own position, beyond the end of the file if
\* another stream has emptied it.
Written(file, at, p) ==
  [i \in 1 .. (IF Len(file) > at THEN Len(file) ELSE at + 1) |->
     IF i = at + 1 THEN p ELSE IF i <= Len(file) THEN file[i] ELSE Hole]

\* datafunc: a chunk is written.  A failed write is not noticed, and those after
\* it do nothing.
Chunk(t) ==
  /\ pc[t] = "write"
  /\ body[t] # <<>>
  /\ body' = [body EXCEPT ![t] = Tail(@)]
  /\ \/ /\ ~bad[t]
        /\ inode' = [inode EXCEPT ![fout[t]] = Written(@, pos[t], Head(body[t]))]
        /\ pos' = [pos EXCEPT ![t] = @ + 1]
        /\ UNCHANGED <<bad, holed>>
     \/ /\ bad[t] \/ DiskFull
        /\ bad' = [bad EXCEPT ![t] = TRUE]
        /\ holed' = holed \cup {fout[t]}
        /\ UNCHANGED <<inode, pos>>
  /\ UNCHANGED <<serverVars, calls, dir, pc, overwrite, etag, fout, result, seen>>

\* The file is renamed in place whatever came of the request.
Failing_Renames(t) ==
  /\ dir' = [dir EXCEPT ![filename] = fout[t]]
  /\ Return(t, "error")
  /\ UNCHANGED <<serverVars, calls, inode, holed, overwrite, seen>>

\* The call returns an error.  A temporary file that exists stays.
Failing(t) ==
  /\ Return(t, "error")
  /\ UNCHANGED <<serverVars, calls, fileVars, overwrite, seen>>

\* StatObject, the opening of the file, GetRegion or the GET fails, or the
\* transfer breaks off.
Fail(t) ==
  \/ /\ pc[t] \in {"stat", "open"}
     /\ Return(t, "error")
     /\ UNCHANGED <<serverVars, calls, fileVars, overwrite, seen>>
  \/ pc[t] \in {"get", "write"} /\ Failing(t)

\* The file is renamed while the body still arrives.
Rename_Early(t) ==
  /\ pc[t] = "write"
  /\ dir[temp_filename(etag[t])] # None
  /\ dir' = [dir EXCEPT ![filename] = dir[temp_filename(etag[t])],
                        ![temp_filename(etag[t])] = None]
  /\ Return(t, "success")
  /\ UNCHANGED <<serverVars, calls, inode, holed, overwrite, seen>>

\* The whole body has arrived: close and rename.
Rename(t) ==
  /\ pc[t] = "write"
  /\ body[t] = <<>>
  /\ dir[temp_filename(etag[t])] # None
  /\ dir' = [dir EXCEPT ![filename] = dir[temp_filename(etag[t])],
                        ![temp_filename(etag[t])] = None]
  /\ Return(t, "success")
  /\ UNCHANGED <<serverVars, calls, inode, holed, overwrite, seen>>

\* std::filesystem::rename throws, for one because the temporary file is gone.
RenameThrows(t) ==
  /\ pc[t] = "write"
  /\ body[t] = <<>>
  /\ Return(t, "threw")
  /\ UNCHANGED <<serverVars, calls, fileVars, overwrite, seen>>

Step(t) ==
  \/ Validate(t) \/ StatObject(t) \/ Open(t) \/ Get(t) \/ Chunk(t) \/ Fail(t)
  \/ Rename(t) \/ RenameThrows(t)

Next ==
  \/ \E t \in Threads : Call(t) \/ Step(t)
  \/ \E v \in Versions \cup {None} : Change(v)

Spec == Init /\ [][Next]_vars

----------------------------------------------------------------------------
(* Properties.                                                              *)

TypeOK ==
  /\ object \in Versions \cup {None}
  /\ dir \in [Names -> DOMAIN inode \cup {None}]
  /\ inode \in Seq(Seq((0 .. Len(Size)) \X Nat))
  /\ pc \in [Threads -> {"idle", "validate", "stat", "open", "get", "write"}]
  /\ etag \in [Threads -> Versions \cup {None}]
  /\ fout \in [Threads -> DOMAIN inode \cup {None}]
  /\ \A t \in Threads : pc[t] \in {"get", "write"} => fout[t] # None
  /\ bad \in [Threads -> BOOLEAN]
  /\ holed \subseteq DOMAIN inode
  /\ pos \in [Threads -> Nat]
  /\ result \in [Threads -> {"none", "success", "error", "threw"}]
  /\ seen \in [Threads -> SUBSET (Versions \cup {None})]

File == inode[dir[filename]]

\* At every moment the file is absent, the old one or one whole version of the
\* object: never a truncated one, a mixture, or one with the rest of an earlier
\* transfer behind it (the temporary file, std::ios::trunc and the rename).  This
\* is said of files no write to which has failed.
FileIsVersion ==
  dir[filename] \notin holed \cup {None}
    => File = OldData \/ \E v \in Versions : File = Data(v)

\* The download of t succeeds in this step.
Succeeds(t) == result[t] = "none" /\ result'[t] = "success"

\* A download that succeeds, all writes included, leaves a version the object had
\* during the call, although StatObject and the GET may have met different ones.
SuccessIsCurrent ==
  [][\A t \in Threads :
       Succeeds(t) /\ ~bad[t] => \E v \in seen[t] \ {None} : File' = Data(v)]_vars

\* A download that fails leaves the file as it was.
FailureKeepsFile ==
  [][\A t \in Threads :
       result[t] = "none" /\ result'[t] \in {"error", "threw"}
         => dir'[filename] = dir[filename]]_vars
=============================================================================
