---------------------------- MODULE RdmaTransfer -----------------------------
(***************************************************************************)
(* The RDMA transport: rdmaPutWithRetry and rdmaGetWithRetry, and the      *)
(* three places that use them: Client::PutObject and Client::GetObject     *)
(* with a buffer of the caller's, and BaseClient::UploadPart from a buffer *)
(* that stays registered from one part to the next.  The client registers  *)
(* the buffer, mints a token for it and sends the token with a request     *)
(* without a body; the server then reads or writes the buffer by itself.   *)
(* The client waits ten seconds for the answer, and a transfer it no       *)
(* longer waits for goes on at the server.                                 *)
(*                                                                         *)
(* Every caller has a buffer of its own; all share one client, its rails   *)
(* and its marks.  Data are pairs of halves, so that a transfer can be     *)
(* interrupted in the middle, or <<>>.  libs3rdma and the server are       *)
(* modelled from how the code uses them.                                   *)
(***************************************************************************)
EXTENDS Integers, Sequences, FiniteSets, Functions

CONSTANTS
  Putters,     \* callers of PutObject and GetObject with a buffer
  Uploaders,   \* callers of UploadPart with a buffer of a pool
  Rails,       \* the network interfaces
  MaxCalls,    \* how many calls are made in all
  DeadRails,   \* the sets of rails that may be dead
  MaxVersions, \* how often another client replaces the object
  kRDMAMaxAttempts

Callers == Putters \cup Uploaders

NoHalf == <<"none", 0>>
NoRail == 0

ASSUME RdmaAssumption ==
  /\ Putters \cap Uploaders = {}
  /\ MaxCalls \in Nat
  /\ Rails \subseteq Nat \ {NoRail} /\ IsFiniteSet(Rails)
  /\ DeadRails \subseteq SUBSET Rails
  /\ MaxVersions \in Nat
  /\ kRDMAMaxAttempts \in Nat \ {0}

VARIABLES
  stored,    \* the server: the object, and every part that was stored
  versions,  \* how often the object was replaced by another client
  aware,     \* whether the server knows x-amz-rdma-token at all
  dead,      \* rails that carry nothing
  marked,    \* rails the client skips
  buffer,    \* per caller: what its buffer holds
  reg,       \* per caller: the key of the registration, 0 for none
  wire,      \* the transfers the server has not finished
  pc, op, call, attempt, rail, result,
  seen,      \* history: what the object has been during the call
  misblamed  \* history: a rail that is not dead was reported

server == <<stored, versions, aware, dead>>
library == <<marked, reg, misblamed>>
callVars == <<pc, op, call, attempt, rail, result>>
vars == <<server, library, buffer, wire, callVars, seen>>

\* What a call or another client writes is named after it.
Data(who, n) == <<<<who, n>>, <<who, n>>>>

\* The name of what a call writes: the object, or a part of an upload.
Target(c) == IF c \in Uploaders THEN <<c, call[c]>> ELSE <<"object", 0>>
Object == stored[<<"object", 0>>]

\* The buffers of a pool are registered when they are allocated, if that works.
Init ==
  /\ versions = 0
  /\ stored = [o \in {<<"object", 0>>} |-> Data("other", 0)]
  /\ aware \in BOOLEAN
  /\ dead \in DeadRails
  /\ marked = {}
  /\ buffer = [c \in Callers |-> <<>>]
  /\ \E u \in {0, 1} : reg = [c \in Callers |-> IF c \in Uploaders THEN u ELSE 0]
  /\ wire = {}
  /\ pc = [c \in Callers |-> "idle"]
  /\ op = [c \in Callers |-> "none"]
  /\ call = [c \in Callers |-> 0]
  /\ attempt = [c \in Callers |-> 0]
  /\ rail = [c \in Callers |-> NoRail]
  /\ result = [c \in Callers |-> "none"]
  /\ seen = [c \in Callers |-> {}]
  /\ misblamed = FALSE

Goto(c, label) == pc' = [pc EXCEPT ![c] = label]
Return(c, r) == Goto(c, "idle") /\ result' = [result EXCEPT ![c] = r]

\* The calls under way may notice what the object becomes.
Noticed(d) == [c \in Callers |-> IF pc[c] = "idle" THEN seen[c] ELSE seen[c] \cup {d}]

\* Data arrive at the server under a name.
Stores(name, d) ==
  /\ stored' = [n \in DOMAIN stored \cup {name} |-> IF n = name THEN d ELSE stored[n]]
  /\ seen' = IF name[1] = "object" THEN Noticed(d) ELSE seen
  /\ UNCHANGED <<versions, aware, dead>>

\* Another client replaces the object.
Replace ==
  /\ versions < MaxVersions
  /\ versions' = versions + 1
  /\ stored' = [stored EXCEPT ![<<"object", 0>>] = Data("other", versions')]
  /\ seen' = Noticed(Data("other", versions'))
  /\ UNCHANGED <<aware, dead, library, buffer, wire, callVars>>

----------------------------------------------------------------------------
(* libs3rdma.                                                               *)

\* A mark on every rail is a mark on none.
Marks(r) == IF marked \cup {r} = Rails THEN {} ELSE marked \cup {r}

ReportTokenFailure_Forgotten(c) == UNCHANGED <<marked, misblamed>>

ReportTokenFailure(c) ==
  /\ marked' = Marks(rail[c])
  /\ misblamed' = (misblamed \/ rail[c] \notin dead)

\* The guard of the registration goes out of scope; a buffer of a pool stays.
Deregister_Leaked(c) == UNCHANGED reg

Deregister(c) == reg' = IF c \in Uploaders THEN reg ELSE [reg EXCEPT ![c] = 0]

----------------------------------------------------------------------------
(* A call: the region, the registration, and the attempts.                  *)

\* The caller fills its buffer, or clears the one it wants to read into.
Call(c, o, d) ==
  /\ pc[c] = "idle"
  /\ FoldFunction(+, 0, call) < MaxCalls
  /\ call' = [call EXCEPT ![c] = call[c] + 1]
  /\ op' = [op EXCEPT ![c] = o]
  /\ buffer' = [buffer EXCEPT ![c] = d]
  /\ result' = [result EXCEPT ![c] = "none"]
  /\ seen' = [seen EXCEPT ![c] = {Object}]
  /\ Goto(c, "region")
  /\ UNCHANGED <<server, library, wire, attempt, rail>>

AnyCall(c) ==
  IF c \in Uploaders THEN Call(c, "part", Data(c, call[c] + 1))
  ELSE \/ \E d \in {Data(c, call[c] + 1), <<>>} : Call(c, "put", d)
       \/ Call(c, "get", <<NoHalf, NoHalf>>)

\* GetRegion may fail.  A part uses RDMA if its buffer is registered; the others
\* register theirs, if it is not too large and the library agrees.
Register(c) ==
  /\ pc[c] = "region"
  /\ \/ Return(c, "err") /\ UNCHANGED reg
     \/ /\ c \in Uploaders
        /\ Goto(c, IF reg[c] = 0 THEN "http" ELSE "token")
        /\ UNCHANGED <<reg, result>>
     \/ /\ c \in Putters
        /\ reg' = [reg EXCEPT ![c] = call[c]]
        /\ Goto(c, "token")
        /\ UNCHANGED result
     \/ /\ c \in Putters
        /\ Goto(c, "http")
        /\ UNCHANGED <<reg, result>>
  /\ UNCHANGED <<server, marked, misblamed, buffer, wire, op, call, attempt, rail, seen>>

\* The if (use_rdma) block is left, by a return or for the HTTP fall-back.
Leave(c) ==
  /\ Deregister(c)
  /\ attempt' = [attempt EXCEPT ![c] = 0]
  /\ rail' = [rail EXCEPT ![c] = NoRail]

FallBack(c) == Leave(c) /\ Goto(c, "http") /\ UNCHANGED result

\* A part names its checksum, which the server compares with what it read.
Checksum_None(c) == <<>>

Checksum(c) == IF op[c] = "part" THEN buffer[c] ELSE <<>>

\* A token for a rail that is not marked, and the request that carries it.
Send(c) ==
  /\ pc[c] = "token"
  /\ attempt' = [attempt EXCEPT ![c] = attempt[c] + 1]
  /\ \E r \in Rails \ marked :
       /\ rail' = [rail EXCEPT ![c] = r]
       /\ wire' = wire \cup
            {[who |-> c, call |-> call[c], attempt |-> attempt'[c], op |-> op[c],
              target |-> Target(c), rail |-> r, key |-> reg[c],
              size |-> Len(buffer[c]), checksum |-> Checksum(c),
              from |-> <<>>, got |-> <<>>, answer |-> <<>>]}
  /\ Goto(c, "await")
  /\ UNCHANGED <<server, library, buffer, op, call, result, seen>>

\* No token, or a request that cannot be built: nothing is sent, no rail blamed.
NothingSent(c) ==
  /\ pc[c] = "token"
  /\ FallBack(c)
  /\ UNCHANGED <<server, marked, misblamed, buffer, wire, op, call, seen>>

----------------------------------------------------------------------------
(* The server.                                                              *)

Awaited(x) ==
  pc[x.who] = "await" /\ <<call[x.who], attempt[x.who]>> = <<x.call, x.attempt>>

Arrives(x) == x.answer = <<>> /\ x.rail \notin dead

\* The answer goes to the caller, if it still waits.
Answers(x, a) ==
  wire' = (wire \ {x}) \cup (IF Awaited(x) THEN {[x EXCEPT !.answer = a]} ELSE {})

\* The headers of an answer.
Headers(etag, reply, bytes) == [etag |-> etag, reply |-> reply, bytes |-> bytes]

\* A GET sends the object it finds at first.
Source(x) == IF x.op # "get" THEN buffer[x.who]
             ELSE IF x.got = <<>> THEN Object ELSE x.from

Whole(x) == IF x.op = "get" THEN Len(Source(x)) ELSE x.size

\* One half is read from the buffer, or written into it, as long as the token
\* names a registration that is still there.
Move(x) ==
  LET i == Len(x.got) + 1
  IN /\ aware /\ Arrives(x)
     /\ reg[x.who] = x.key
     /\ i <= Whole(x)
     /\ wire' = (wire \ {x}) \cup
          {[x EXCEPT !.from = IF x.op = "get" THEN Source(x) ELSE <<>>,
                     !.got = Append(x.got, Source(x)[i])]}
     /\ buffer' = IF x.op = "get" THEN [buffer EXCEPT ![x.who][i] = Source(x)[i]]
                  ELSE buffer
     /\ UNCHANGED <<server, library, callVars, seen>>

\* What a reply says of a transfer that was done.
PutReplies == {"200", "204"}
GetReplies == {"200", "206"}

\* Everything is read: it is stored if the checksum agrees.  Everything is
\* written: an answer names the number of bytes, an old server's does not.
Finish(x) ==
  /\ aware /\ Arrives(x)
  /\ Len(x.got) = Whole(x)
  /\ \/ /\ x.op # "get"
        /\ x.checksum \in {<<>>, x.got}
        /\ Stores(x.target, x.got)
        /\ \E e \in BOOLEAN, r \in PutReplies : Answers(x, Headers(e, r, 0))
     \/ /\ x.op # "get"
        /\ x.checksum \notin {<<>>, x.got}
        /\ Answers(x, Headers(FALSE, "400", 0))
        /\ UNCHANGED <<server, seen>>
     \/ /\ x.op = "get"
        /\ \E b \in {Len(x.got), -1}, r \in GetReplies : Answers(x, Headers(TRUE, r, b))
        /\ UNCHANGED <<server, seen>>
  /\ UNCHANGED <<library, buffer, callVars>>

\* The server declines, or fails in the middle.
Refuse(x) ==
  /\ aware /\ Arrives(x)
  /\ Answers(x, Headers(FALSE, IF x.got = <<>> THEN "501" ELSE "500", 0))
  /\ UNCHANGED <<server, library, buffer, callVars, seen>>

\* A server that does not know the token sees a request without a body.
Ignore(x) ==
  /\ ~aware /\ Arrives(x)
  /\ \/ /\ x.op = "put"
        /\ Stores(x.target, <<>>)
        /\ Answers(x, Headers(TRUE, "absent", 0))
     \/ /\ x.op # "put"
        /\ Answers(x, Headers(x.op = "get", "absent", 0))
        /\ UNCHANGED <<server, seen>>
  /\ UNCHANGED <<library, buffer, callVars>>

----------------------------------------------------------------------------
(* The answer.                                                              *)

kRDMANotSupported == -2

\* The code of the reply header; an absent one means not supported.
parseRDMAReply(reply) ==
  IF reply \in {"absent", "501"} THEN kRDMANotSupported
  ELSE IF reply = "200" THEN 200
  ELSE IF reply = "204" THEN 204
  ELSE IF reply = "206" THEN 206
  ELSE IF reply = "400" THEN 400
  ELSE 500

\* The reply code is looked at only to see whether the server declined.
rdmaPut_AnyReply(x) == IF parseRDMAReply(x.answer.reply) = kRDMANotSupported
                       THEN kRDMANotSupported ELSE x.size

\* 200 and an etag will do, whatever the reply header says.
rdmaPut(x) ==
  LET code == parseRDMAReply(x.answer.reply)
  IN IF x.answer.etag THEN x.size
     ELSE IF code = kRDMANotSupported THEN kRDMANotSupported
     ELSE IF code \in {200, 204} THEN x.size
     ELSE -1

\* The check of the reply code is left out.
rdmaGet_AnyReply(x) == IF x.answer.bytes >= 0 /\ x.answer.reply \in GetReplies
                       THEN x.answer.bytes ELSE x.size

\* The number of bytes, or the size of the buffer if the answer does not tell.
rdmaGet(x) ==
  LET code == parseRDMAReply(x.answer.reply)
  IN IF code = kRDMANotSupported THEN kRDMANotSupported
     ELSE IF code \notin {200, 206} THEN -1
     ELSE IF x.answer.bytes = -1 THEN x.size ELSE x.answer.bytes

\* The loop of rdmaPutWithRetry and rdmaGetWithRetry, after an attempt: a failure
\* is charged to the rail and tried again; so is a transfer of nothing at all.
Outcome(c, ret) ==
  IF ret > 0
    THEN Leave(c) /\ Return(c, "ok") /\ UNCHANGED <<marked, misblamed>>
  ELSE IF ret = kRDMANotSupported
    THEN FallBack(c) /\ UNCHANGED <<marked, misblamed>>
  ELSE /\ ReportTokenFailure(c)
       /\ IF attempt[c] < kRDMAMaxAttempts
            THEN Goto(c, "token") /\ UNCHANGED <<reg, result, attempt, rail>>
            ELSE FallBack(c)

Receive(c) ==
  /\ pc[c] = "await"
  /\ \E x \in wire :
       /\ x.who = c /\ Awaited(x) /\ x.answer # <<>>
       /\ wire' = wire \ {x}
       /\ Outcome(c, IF x.op = "get" THEN rdmaGet(x) ELSE rdmaPut(x))
  /\ UNCHANGED <<server, buffer, op, call, seen>>

\* No answer within kRDMATimeoutSecs.  What went over a dead rail is lost; the
\* rest goes on without the client.
Timeout(c) ==
  /\ pc[c] = "await"
  /\ wire' = {x \in wire : x.who # c \/ ~Awaited(x)} \cup
             {[x EXCEPT !.rail = NoRail] : x \in {y \in wire : y.who = c /\ Awaited(y) /\ Arrives(y)}}
  /\ Outcome(c, -1)
  /\ UNCHANGED <<server, buffer, op, call, seen>>

\* The ordinary request, from the buffer or into it; a device buffer is copied
\* to and from the host, which may fail before or after the request.
Http(c) ==
  /\ pc[c] = "http"
  /\ \/ Return(c, "err") /\ UNCHANGED <<server, seen, buffer>>
     \/ /\ op[c] # "get"
        /\ \E r \in {"ok", "err"} : Return(c, r)
        /\ Stores(Target(c), buffer[c])
        /\ UNCHANGED buffer
     \/ /\ op[c] = "get"
        /\ buffer' = [buffer EXCEPT ![c] = [i \in 1 .. 2 |-> IF i <= Len(Object)
                                                            THEN Object[i] ELSE @[i]]]
        /\ \E r \in {"ok", "err"} : Return(c, r)
        /\ UNCHANGED <<server, seen>>
  /\ UNCHANGED <<library, wire, op, call, attempt, rail>>

Step(c) == Register(c) \/ Send(c) \/ NothingSent(c) \/ Receive(c) \/ Timeout(c) \/ Http(c)

Next ==
  \/ Replace
  \/ \E c \in Callers : AnyCall(c) \/ Step(c)
  \/ \E x \in wire : Move(x) \/ Finish(x) \/ Refuse(x) \/ Ignore(x)

Spec == Init /\ [][Next]_vars

----------------------------------------------------------------------------
(* Properties.                                                              *)

\* Whatever a late transfer finds in the buffer it was told to read, nothing is
\* stored that is made of two calls' data, and a part is stored under its own
\* number only.  (A direct buffer is protected by its deregistration, a buffer
\* of a pool by the checksum.)
StoredWhole ==
  \A n \in DOMAIN stored :
    /\ stored[n] = <<>> \/ stored[n][1] = stored[n][2]
    /\ n[1] # "object" => stored[n] = Data(n[1], n[2])

\* Once GetObject has returned, no late transfer writes into the caller's buffer.
QuietAfterReturn ==
  [][\A c \in Callers : pc[c] = "idle" /\ buffer'[c] # buffer[c] => pc'[c] = "region"]_vars

\* A GetObject that succeeded has left nothing in the buffer but what the object
\* was during the call.  (The halves may be of two versions.)
GotCurrent ==
  \A c \in Putters : op[c] = "get" /\ pc[c] = "idle" /\ result[c] = "ok" =>
    \/ <<>> \in seen[c]
    \/ \A i \in 1 .. 2 : \E d \in seen[c] : d # <<>> /\ buffer[c][i] = d[i]

\* A PutObject or UploadPart that succeeded has stored the caller's data, if the
\* server knows the token.
PutStored ==
  \A c \in Callers : aware /\ pc[c] = "idle" /\ result[c] = "ok" =>
    /\ op[c] = "put" => buffer[c] \in seen[c]
    /\ op[c] = "part" => Target(c) \in DOMAIN stored

\* With a single dead rail among several the second attempt avoids it, whichever
\* caller came upon it first, unless the failure of a transfer was charged to a
\* live rail.
SecondRailLives ==
  Cardinality(dead) = 1 /\ dead # Rails /\ ~misblamed =>
    \A c \in Callers : pc[c] = "await" /\ attempt[c] > 1 => rail[c] \notin dead
=============================================================================
