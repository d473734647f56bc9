------------------------- MODULE RdmaTransferProofs --------------------------
(***************************************************************************)
(* The RDMA transport for any number of callers, rails and calls: what is  *)
(* stored is whole, a late transfer touches no buffer that was given back, *)
(* and a success means what it says.  The proof follows one idea: a        *)
(* registration of a direct buffer is named after the call that made it,   *)
(* so the server can move data only as long as that call waits; for a      *)
(* buffer of a pool the checksum takes this place.                         *)
(***************************************************************************)
EXTENDS RdmaTransfer, SequenceTheorems, FiniteSetTheorems, TLAPS

Half == (Callers \cup {"other", "none"}) \X Nat
Contents == {d \in Seq(Half) : Len(d) \in {0, 2}}
Names == (Callers \X Nat) \cup {<<"object", 0>>}
Replies == {"absent", "200", "204", "206", "400", "500", "501"}
Answered == [etag : BOOLEAN, reply : Replies, bytes : Int]

Transfers ==
  [who : Callers, call : Nat, attempt : Nat, op : {"put", "get", "part"}, target : Names,
   rail : Nat, key : Nat, size : Nat, checksum : Contents, from : Contents,
   got : Seq(Half), answer : Answered \cup {<<>>}]

RdmaTypeOK ==
  /\ pc \in [Callers -> {"idle", "region", "token", "await", "http"}]
  /\ op \in [Callers -> {"none", "put", "get", "part"}]
  /\ call \in [Callers -> Nat]
  /\ attempt \in [Callers -> Nat]
  /\ rail \in [Callers -> Nat]
  /\ reg \in [Callers -> Nat]
  /\ result \in [Callers -> {"none", "ok", "err"}]
  /\ buffer \in [Callers -> Contents]
  /\ seen \in [Callers -> SUBSET Contents]
  /\ versions \in Nat
  /\ <<"object", 0>> \in DOMAIN stored
  /\ \A n \in DOMAIN stored : stored[n] \in Contents
  /\ wire \subseteq Transfers

\* A direct buffer is registered while its call waits for a transfer, under the
\* number of that call, and holds what the call writes.
CallInv(c) ==
  /\ pc[c] # "idle" => call[c] > 0 /\ Object \in seen[c]
  /\ call[c] > 0 => op[c] # "none"
  /\ op[c] = "part" => c \in Uploaders /\ buffer[c] = Data(c, call[c])
  /\ op[c] \in {"put", "get"} => c \in Putters
  /\ op[c] = "put" => buffer[c] \in {Data(c, call[c]), <<>>}
  /\ op[c] = "get" => Len(buffer[c]) = 2
  /\ c \in Putters => reg[c] = IF pc[c] \in {"token", "await"} THEN call[c] ELSE 0

\* A place of the buffer holds what the object was during the call.
Current(c, i) == \E d \in seen[c] : d # <<>> /\ buffer[c][i] = d[i]

\* What is returned with success.
Done(c) ==
  /\ op[c] = "put" /\ aware => buffer[c] \in seen[c]
  /\ op[c] = "part" /\ aware => Target(c) \in DOMAIN stored
  /\ op[c] = "get" => <<>> \in seen[c] \/ \A i \in 1 .. 2 : Current(c, i)

ResultInv(c) == pc[c] = "idle" /\ result[c] = "ok" => Done(c)

\* A transfer has read only what its own call wrote, or carries the checksum of
\* that; an answer that counts as success means that the data are in place.
WireInv(x) ==
  /\ x.call > 0 /\ x.call <= call[x.who]
  /\ x.op = "part" <=> x.who \in Uploaders
  /\ x.who \in Putters => x.key = x.call
  /\ x.call = call[x.who] => x.op = op[x.who] /\ x.size = Len(buffer[x.who])
  /\ x.op = "put" => /\ x.target = <<"object", 0>>
                     /\ x.size \in {0, 2} /\ Len(x.got) <= x.size
                     /\ \A i \in 1 .. Len(x.got) : x.got[i] = <<x.who, x.call>>
  /\ x.op = "part" => /\ x.target = <<x.who, x.call>>
                      /\ x.checksum = Data(x.who, x.call) /\ x.size = 2
  /\ x.answer # <<>> /\ (x.answer.etag \/ x.answer.reply \in PutReplies) /\ aware =>
       /\ x.op = "put" /\ x.call = call[x.who] => buffer[x.who] \in seen[x.who]
       /\ x.op = "part" => x.target \in DOMAIN stored
  /\ x.op = "get" /\ x.call = call[x.who] =>
       /\ x.got # <<>> => x.from \in seen[x.who] /\ Len(x.from) = 2
       /\ Len(x.got) <= 2
       /\ \A i \in 1 .. Len(x.got) : Current(x.who, i)
       /\ x.answer # <<>> /\ x.answer.reply \in GetReplies =>
            <<>> \in seen[x.who] \/ \A i \in 1 .. 2 : Current(x.who, i)

CallsInv == \A c \in Callers : CallInv(c) /\ ResultInv(c)
WiresInv == \A x \in wire : WireInv(x)
RdmaInv == RdmaTypeOK /\ CallsInv /\ WiresInv /\ StoredWhole

----------------------------------------------------------------------------
(* Data.                                                                    *)

LEMMA EmptyFacts == <<>> \in Contents /\ Len(<<>>) = 0
BY DEF Contents

LEMMA DataFacts ==
  ASSUME NEW who \in Callers \cup {"other", "none"}, NEW n \in Nat
  PROVE  /\ Data(who, n) \in Contents
         /\ Len(Data(who, n)) = 2
         /\ Data(who, n) # <<>>
         /\ Data(who, n)[1] = <<who, n>> /\ Data(who, n)[2] = <<who, n>>
<1>1. <<who, n>> \in Half
  BY DEF Half
<1> QED BY <1>1 DEF Data, Contents

LEMMA DataIs ==
  ASSUME NEW who \in Callers, NEW n \in Nat, NEW d \in Seq(Half), Len(d) = 2,
         d[1] = <<who, n>>, d[2] = <<who, n>>
  PROVE  d = Data(who, n)
<1>1. Data(who, n) \in Seq(Half) /\ Len(Data(who, n)) = Len(d)
  BY DataFacts DEF Contents
<1>2. \A i \in 1 .. Len(d) : d[i] = Data(who, n)[i]
  <2>1. Data(who, n)[1] = d[1] /\ Data(who, n)[2] = d[2]
    BY DataFacts
  <2>2. \A i \in 1 .. Len(d) : i = 1 \/ i = 2
    OBVIOUS
  <2> QED BY <2>1, <2>2
<1> QED BY <1>1, <1>2, SeqEqual

LEMMA PairFacts ==
  ASSUME NEW d \in [1 .. 2 -> Half]
  PROVE  d \in Seq(Half) /\ Len(d) = 2
<1>1. d \in Seq(Half)
  <2>1. [1 .. 2 -> Half] \in {[1 .. n -> Half] : n \in Nat}
    OBVIOUS
  <2> QED BY <2>1, SeqDef, Zenon
<1>2. DOMAIN d = 1 .. Len(d) /\ Len(d) \in Nat
  BY <1>1, LenProperties
<1> QED BY <1>1, <1>2

\* Nothing else has no halves.
LEMMA ContentsFacts ==
  ASSUME NEW d \in Contents
  PROVE  /\ d \in Seq(Half)
         /\ Len(d) \in {0, 2}
         /\ d = <<>> <=> Len(d) = 0
         /\ \A i \in 1 .. Len(d) : d[i] \in Half
BY DEF Contents

LEMMA TransferFacts ==
  ASSUME NEW x \in Transfers
  PROVE  /\ x.who \in Callers /\ x.call \in Nat /\ x.op \in {"put", "get", "part"}
         /\ x.target \in Names /\ x.key \in Nat /\ x.size \in Nat /\ x.size \in Int
         /\ x.checksum \in Contents /\ x.from \in Contents /\ x.got \in Seq(Half)
         /\ x.answer # <<>> => x.answer \in Answered
BY DEF Transfers

LEMMA AnsweredFacts ==
  ASSUME NEW a \in Answered
  PROVE  /\ a.etag \in BOOLEAN /\ a.bytes \in Int
         /\ a.reply \in Replies
BY DEF Answered

LEMMA ReplyFacts ==
  ASSUME NEW reply \in Replies
  PROVE  /\ parseRDMAReply(reply) \in {kRDMANotSupported, 200, 204, 206, 400, 500}
         /\ parseRDMAReply(reply) \in {200, 204} => reply \in PutReplies
         /\ parseRDMAReply(reply) \in {200, 206} => reply \in GetReplies
BY DEF Replies, PutReplies, GetReplies, parseRDMAReply, kRDMANotSupported

----------------------------------------------------------------------------
(* What a step may leave as it is.                                          *)

LEMMA WireFrame ==
  ASSUME NEW x, WireInv(x), UNCHANGED <<call, op, aware>>, buffer'[x.who] = buffer[x.who],
         seen[x.who] \subseteq seen'[x.who], DOMAIN stored \subseteq DOMAIN stored'
  PROVE  WireInv(x)'
<1>1. \A i : Current(x.who, i) => Current(x.who, i)'
  BY DEF Current
<1> QED BY <1>1 DEF WireInv

LEMMA CallFrame ==
  ASSUME NEW c \in Callers, CallInv(c), UNCHANGED <<call, op>>,
         pc'[c] = pc[c], reg'[c] = reg[c], buffer'[c] = buffer[c],
         pc[c] # "idle" => Object' \in seen'[c]
  PROVE  CallInv(c)'
BY DEF CallInv

LEMMA ResultFrame ==
  ASSUME NEW c \in Callers, ResultInv(c), UNCHANGED <<call, op, aware>>,
         pc'[c] = pc[c], result'[c] = result[c], buffer'[c] = buffer[c],
         seen[c] \subseteq seen'[c], DOMAIN stored \subseteq DOMAIN stored'
  PROVE  ResultInv(c)'
<1>1. \A i : Current(c, i) => Current(c, i)'
  BY DEF Current
<1> QED BY <1>1 DEF ResultInv, Done, Target

LEMMA StoredFrame == StoredWhole /\ UNCHANGED stored => StoredWhole'
BY DEF StoredWhole

\* What is stored is noticed by the calls under way.
LEMMA StoresFacts ==
  ASSUME RdmaTypeOK, CallsInv, StoredWhole, NEW name \in Names, NEW d \in Contents,
         Stores(name, d), d = <<>> \/ d[1] = d[2],
         name[1] # "object" => d = Data(name[1], name[2])
  PROVE  /\ <<"object", 0>> \in DOMAIN stored'
         /\ \A n \in DOMAIN stored' : stored'[n] \in Contents
         /\ name \in DOMAIN stored'
         /\ DOMAIN stored \subseteq DOMAIN stored'
         /\ seen' \in [Callers -> SUBSET Contents]
         /\ \A c \in Callers : /\ seen[c] \subseteq seen'[c]
                               /\ pc[c] # "idle" => Object' \in seen'[c]
                               /\ pc[c] # "idle" /\ name = <<"object", 0>> => d \in seen'[c]
         /\ StoredWhole'
         /\ UNCHANGED <<versions, aware, dead>>
<1> USE DEF RdmaTypeOK
<1>1. stored' = [n \in DOMAIN stored \cup {name} |-> IF n = name THEN d ELSE stored[n]]
  BY DEF Stores
<1>2. seen' = IF name[1] = "object" THEN Noticed(d) ELSE seen
  BY DEF Stores
<1>3. \A c \in Callers : pc[c] # "idle" => Object \in seen[c]
  BY DEF CallsInv, CallInv
<1>4. StoredWhole'
  <2> SUFFICES ASSUME NEW n \in DOMAIN stored'
               PROVE  /\ stored'[n] = <<>> \/ stored'[n][1] = stored'[n][2]
                      /\ n[1] # "object" => stored'[n] = Data(n[1], n[2])
    BY DEF StoredWhole
  <2>1. CASE n = name
    BY <1>1, <2>1
  <2>2. CASE n # name
    BY <1>1, <2>2 DEF StoredWhole
  <2> QED BY <2>1, <2>2
<1>5. /\ seen' \in [Callers -> SUBSET Contents]
      /\ \A c \in Callers : /\ seen[c] \subseteq seen'[c]
                            /\ pc[c] # "idle" /\ name[1] = "object" => d \in seen'[c]
  BY <1>2 DEF Noticed
<1>6. \A c \in Callers : pc[c] # "idle" => Object' \in seen'[c]
  <2>1. CASE name = <<"object", 0>>
    BY <1>1, <1>5, <2>1 DEF Object
  <2>2. CASE name # <<"object", 0>>
    BY <1>1, <1>3, <1>5, <2>2 DEF Object
  <2> QED BY <2>1, <2>2
<1> QED BY <1>1, <1>4, <1>5, <1>6 DEF Stores

----------------------------------------------------------------------------
(* The steps.                                                               *)

LEMMA RdmaInit == Init => RdmaInv
<1> SUFFICES ASSUME Init PROVE RdmaInv
  OBVIOUS
<1>1. Data("other", 0) \in Contents /\ Data("other", 0)[1] = Data("other", 0)[2]
  BY DataFacts
<1>2. RdmaTypeOK
  BY <1>1, EmptyFacts DEF Init, RdmaTypeOK, NoRail
<1>3. CallsInv
  BY RdmaAssumption DEF Init, CallsInv, CallInv, ResultInv, Callers
<1>4. WiresInv
  BY DEF Init, WiresInv
<1>5. StoredWhole
  <2>1. DOMAIN stored = {<<"object", 0>>} /\ stored[<<"object", 0>>] = Data("other", 0)
    BY DEF Init
  <2>2. \A n \in DOMAIN stored : n[1] = "object"
    BY <2>1
  <2> QED BY <1>1, <2>1, <2>2 DEF StoredWhole
<1> QED BY <1>2, <1>3, <1>4, <1>5 DEF RdmaInv

LEMMA ReplacePreserves == RdmaInv /\ Replace => RdmaInv'
<1> SUFFICES ASSUME RdmaInv, Replace PROVE RdmaInv'
  OBVIOUS
<1> USE DEF RdmaInv, RdmaTypeOK
<1> DEFINE d == Data("other", versions + 1)
<1>1. d \in Contents /\ d[1] = d[2]
  <2>1. versions + 1 \in Nat
    OBVIOUS
  <2> QED BY <2>1, DataFacts
<1>2. /\ versions' = versions + 1
      /\ stored' = [stored EXCEPT ![<<"object", 0>>] = d]
      /\ seen' = Noticed(d)
      /\ UNCHANGED <<aware, dead, marked, reg, misblamed, buffer, wire, pc, op, call, attempt,
                     rail, result>>
  BY DEF Replace, library, callVars
<1> HIDE DEF d
<1>3. DOMAIN stored' = DOMAIN stored /\ Object' = d
  BY <1>2 DEF Object
<1>4. /\ seen' \in [Callers -> SUBSET Contents]
      /\ \A c \in Callers : seen[c] \subseteq seen'[c] /\ (pc[c] # "idle" => d \in seen'[c])
  BY <1>1, <1>2 DEF Noticed
<1>5. RdmaTypeOK'
  BY <1>1, <1>2, <1>3, <1>4
<1>6. CallsInv'
  <2> SUFFICES ASSUME NEW c \in Callers PROVE CallInv(c)' /\ ResultInv(c)'
    BY DEF CallsInv
  <2>1. CallInv(c) /\ ResultInv(c)
    BY DEF CallsInv
  <2> QED BY <1>2, <1>3, <1>4, <2>1, CallFrame, ResultFrame
<1>7. WiresInv'
  BY <1>2, <1>3, <1>4, WireFrame DEF WiresInv, Transfers
<1>8. StoredWhole'
  <2>1. \A n \in DOMAIN stored' : stored'[n] = IF n = <<"object", 0>> THEN d ELSE stored[n]
    BY <1>2
  <2> QED BY <1>1, <1>3, <2>1 DEF StoredWhole
<1> QED BY <1>5, <1>6, <1>7, <1>8

\* A new call leaves the transfers of earlier calls behind.
LEMMA CallPreserves ==
  ASSUME RdmaInv, NEW c \in Callers, AnyCall(c)
  PROVE  RdmaInv'
<1> USE DEF RdmaInv, RdmaTypeOK
<1>1. PICK o \in {"put", "get", "part"}, d \in Contents :
        /\ Call(c, o, d)
        /\ o = "part" => c \in Uploaders /\ d = Data(c, call[c] + 1)
        /\ o \in {"put", "get"} => c \in Putters
        /\ o = "put" => d \in {Data(c, call[c] + 1), <<>>}
        /\ o = "get" => Len(d) = 2
  <2>1. Data(c, call[c] + 1) \in Contents
    <3>1. call[c] + 1 \in Nat
      OBVIOUS
    <3> QED BY <3>1, DataFacts
  <2>2. <<NoHalf, NoHalf>> \in Contents /\ Len(<<NoHalf, NoHalf>>) = 2
    BY DEF NoHalf, Half, Contents
  <2>3. CASE c \in Uploaders
    BY <2>1, <2>3, RdmaAssumption DEF AnyCall
  <2>4. CASE c \notin Uploaders
    BY <2>1, <2>2, <2>4, EmptyFacts DEF AnyCall, Callers
  <2> QED BY <2>3, <2>4
<1>2. /\ pc[c] = "idle"
      /\ call' = [call EXCEPT ![c] = call[c] + 1]
      /\ op' = [op EXCEPT ![c] = o]
      /\ buffer' = [buffer EXCEPT ![c] = d]
      /\ result' = [result EXCEPT ![c] = "none"]
      /\ seen' = [seen EXCEPT ![c] = {Object}]
      /\ pc' = [pc EXCEPT ![c] = "region"]
      /\ UNCHANGED <<stored, versions, aware, dead, marked, reg, misblamed, wire, attempt, rail>>
  BY <1>1 DEF Call, Goto, server, library
<1>3. RdmaTypeOK'
  BY <1>1, <1>2 DEF Object
<1>4. CallsInv'
  <2> SUFFICES ASSUME NEW b \in Callers PROVE CallInv(b)' /\ ResultInv(b)'
    BY DEF CallsInv
  <2>1. CallInv(b) /\ ResultInv(b)
    BY DEF CallsInv
  <2>2. Object' = Object
    BY <1>2 DEF Object
  <2>3. CASE b = c
    BY <1>1, <1>2, <2>1, <2>2, <2>3 DEF CallInv, ResultInv
  <2>4. CASE b # c
    <3>1. /\ call'[b] = call[b] /\ op'[b] = op[b] /\ buffer'[b] = buffer[b] /\ pc'[b] = pc[b]
          /\ seen'[b] = seen[b] /\ result'[b] = result[b] /\ reg'[b] = reg[b]
      BY <1>2, <2>4
    <3> QED BY <1>2, <2>1, <2>2, <3>1 DEF CallInv, ResultInv, Done, Current, Target
  <2> QED BY <2>3, <2>4
<1>5. WiresInv'
  <2> SUFFICES ASSUME NEW x \in wire PROVE WireInv(x)'
    BY <1>2 DEF WiresInv
  <2>1. WireInv(x) /\ x.who \in Callers /\ x.call \in Nat
    BY DEF WiresInv, Transfers
  <2>2. CASE x.who = c
    <3>1. call'[x.who] = call[x.who] + 1 /\ x.call # call'[x.who] /\ x.call <= call'[x.who]
      BY <1>2, <2>1, <2>2 DEF WireInv
    <3> QED BY <1>2, <2>1, <3>1 DEF WireInv
  <2>3. CASE x.who # c
    <3>1. /\ call'[x.who] = call[x.who] /\ op'[x.who] = op[x.who]
          /\ buffer'[x.who] = buffer[x.who] /\ seen'[x.who] = seen[x.who]
      BY <1>2, <2>1, <2>3
    <3> QED BY <1>2, <2>1, <3>1 DEF WireInv, Current
  <2> QED BY <2>2, <2>3
<1>6. StoredWhole'
  BY <1>2, StoredFrame
<1> QED BY <1>3, <1>4, <1>5, <1>6

\* A step of one call that leaves the data alone: its place, its registration and
\* its result change together.
LEMMA OwnStep ==
  ASSUME RdmaInv, NEW c \in Callers,
         NEW label \in {"idle", "token", "await", "http"}, NEW r \in {"none", "ok", "err"},
         NEW k \in Nat, pc[c] # "idle",
         pc' = [pc EXCEPT ![c] = label], result' = [result EXCEPT ![c] = r],
         reg' = [reg EXCEPT ![c] = k],
         c \in Putters => k = IF label \in {"token", "await"} THEN call[c] ELSE 0,
         label = "idle" /\ r = "ok" => Done(c),
         UNCHANGED <<stored, versions, aware, dead, buffer, op, call, seen>>
  PROVE  CallsInv'
<1> USE DEF RdmaInv, RdmaTypeOK
<1> SUFFICES ASSUME NEW b \in Callers PROVE CallInv(b)' /\ ResultInv(b)'
  BY DEF CallsInv
<1>1. CallInv(b) /\ ResultInv(b) /\ Object' = Object
  BY DEF CallsInv, Object
<1>2. CASE b # c
  <2>1. pc'[b] = pc[b] /\ reg'[b] = reg[b] /\ result'[b] = result[b]
    BY <1>2
  <2>2. pc[b] # "idle" => Object' \in seen'[b]
    BY <1>1 DEF CallInv
  <2> QED BY <1>1, <2>1, <2>2, CallFrame, ResultFrame
<1>3. CASE b = c
  <2>1. pc'[c] = label /\ reg'[c] = k /\ result'[c] = r
    OBVIOUS
  <2>2. CallInv(c)'
    BY <1>1, <1>3, <2>1 DEF CallInv
  <2>3. Done(c) => Done(c)'
    BY DEF Done, Current, Target
  <2> QED BY <1>3, <2>1, <2>2, <2>3 DEF ResultInv
<1> QED BY <1>2, <1>3

LEMMA SameWires ==
  ASSUME RdmaInv, UNCHANGED <<stored, aware, buffer, op, call, seen>>
  PROVE  /\ \A x \in wire : WireInv(x)'
         /\ StoredWhole'
<1>1. \A x \in wire : WireInv(x)
  BY DEF RdmaInv, WiresInv
<1>2. \A x \in wire : WireInv(x)'
  BY <1>1, WireFrame
<1> QED BY <1>2, StoredFrame DEF RdmaInv

LEMMA RegisterPreserves ==
  ASSUME RdmaInv, NEW c \in Callers, Register(c)
  PROVE  RdmaInv'
<1> USE DEF RdmaInv, RdmaTypeOK
<1>1. /\ pc[c] = "region"
      /\ UNCHANGED <<stored, versions, aware, dead, marked, misblamed, buffer, wire, op, call,
                     attempt, rail, seen>>
  BY DEF Register, server
<1>2. c \in Putters => reg[c] = 0
  BY <1>1 DEF CallsInv, CallInv
<1>3. PICK label \in {"idle", "token", "http"}, r \in {result[c], "err"}, k \in {reg[c], call[c]} :
        /\ pc' = [pc EXCEPT ![c] = label] /\ result' = [result EXCEPT ![c] = r]
        /\ reg' = [reg EXCEPT ![c] = k]
        /\ c \in Putters => k = IF label = "token" THEN call[c] ELSE 0
        /\ label = "idle" => r = "err"
  <2>1. CASE Return(c, "err") /\ UNCHANGED reg
    BY <1>2, <2>1 DEF Return, Goto
  <2>2. CASE c \in Uploaders /\ Goto(c, IF reg[c] = 0 THEN "http" ELSE "token")
             /\ UNCHANGED <<reg, result>>
    BY <2>2, RdmaAssumption DEF Goto
  <2>3. CASE c \in Putters /\ reg' = [reg EXCEPT ![c] = call[c]] /\ Goto(c, "token")
             /\ UNCHANGED result
    BY <2>3 DEF Goto
  <2>4. CASE c \in Putters /\ Goto(c, "http") /\ UNCHANGED <<reg, result>>
    BY <1>2, <2>4 DEF Goto
  <2> QED BY <2>1, <2>2, <2>3, <2>4 DEF Register
<1>4. CallsInv'
  BY <1>1, <1>3, OwnStep
<1>5. RdmaTypeOK'
  BY <1>1, <1>3
<1> QED BY <1>1, <1>4, <1>5, SameWires DEF WiresInv

\* The end of a transfer, however it went: the caller returns, falls back or
\* tries again, and a direct buffer stays registered only in the last case.
LEMMA OutcomePreserves ==
  ASSUME RdmaInv, NEW c \in Callers, pc[c] \in {"token", "await"}, NEW ret \in Int,
         Outcome(c, ret) \/ FallBack(c), ret > 0 => Done(c),
         UNCHANGED <<stored, versions, aware, dead, buffer, op, call, seen>>
  PROVE  /\ CallsInv'
         /\ pc' \in [Callers -> {"idle", "region", "token", "await", "http"}]
         /\ reg' \in [Callers -> Nat] /\ attempt' \in [Callers -> Nat]
         /\ rail' \in [Callers -> Nat] /\ result' \in [Callers -> {"none", "ok", "err"}]
<1> USE DEF RdmaInv, RdmaTypeOK
<1>1. c \in Putters => reg[c] = call[c]
  BY DEF CallsInv, CallInv
<1>2. Leave(c) => /\ reg' = [reg EXCEPT ![c] = IF c \in Uploaders THEN reg[c] ELSE 0]
                  /\ attempt' \in [Callers -> Nat] /\ rail' \in [Callers -> Nat]
  <2>1. CASE c \in Uploaders
    BY <2>1 DEF Leave, Deregister, NoRail
  <2>2. CASE c \notin Uploaders
    BY <2>2 DEF Leave, Deregister, NoRail
  <2> QED BY <2>1, <2>2
<1>3. \/ Leave(c) /\ Return(c, "ok") /\ ret > 0
      \/ Leave(c) /\ Goto(c, "http") /\ UNCHANGED result
      \/ Goto(c, "token") /\ UNCHANGED <<reg, result, attempt, rail>>
  BY DEF Outcome, FallBack
<1>4. PICK label \in {"idle", "token", "http"}, r \in {result[c], "ok"},
           k \in {reg[c], 0} :
        /\ pc' = [pc EXCEPT ![c] = label] /\ result' = [result EXCEPT ![c] = r]
        /\ reg' = [reg EXCEPT ![c] = k]
        /\ c \in Putters => k = IF label = "token" THEN call[c] ELSE 0
        /\ label = "idle" => r = "ok" /\ ret > 0
        /\ attempt' \in [Callers -> Nat] /\ rail' \in [Callers -> Nat]
  <2>1. CASE Leave(c) /\ Return(c, "ok") /\ ret > 0
    BY <1>2, <2>1, RdmaAssumption DEF Return, Goto
  <2>2. CASE Leave(c) /\ Goto(c, "http") /\ UNCHANGED result
    BY <1>2, <2>2, RdmaAssumption DEF Goto
  <2>3. CASE Goto(c, "token") /\ UNCHANGED <<reg, result, attempt, rail>>
    BY <1>1, <2>3 DEF Goto
  <2> QED BY <1>3, <2>1, <2>2, <2>3
<1>5. CallsInv'
  BY <1>4, OwnStep
<1> QED BY <1>4, <1>5

LEMMA NothingSentPreserves ==
  ASSUME RdmaInv, NEW c \in Callers, NothingSent(c)
  PROVE  RdmaInv'
<1>1. /\ pc[c] = "token" /\ FallBack(c)
      /\ UNCHANGED <<stored, versions, aware, dead, buffer, wire, op, call, seen>>
  BY DEF NothingSent, server
<1>2. /\ CallsInv'
      /\ pc' \in [Callers -> {"idle", "region", "token", "await", "http"}]
      /\ reg' \in [Callers -> Nat] /\ attempt' \in [Callers -> Nat]
      /\ rail' \in [Callers -> Nat] /\ result' \in [Callers -> {"none", "ok", "err"}]
  BY <1>1, OutcomePreserves, 0 \in Int
<1>3. RdmaTypeOK'
  BY <1>1, <1>2 DEF RdmaInv, RdmaTypeOK
<1> QED BY <1>1, <1>2, <1>3, SameWires DEF RdmaInv, WiresInv

\* The transfer that is sent knows its call, and nothing was read yet.
LEMMA SendPreserves ==
  ASSUME RdmaInv, NEW c \in Callers, Send(c)
  PROVE  RdmaInv'
<1> USE DEF RdmaInv, RdmaTypeOK
<1>1. PICK r \in Rails \ marked :
        /\ rail' = [rail EXCEPT ![c] = r]
        /\ wire' = wire \cup
             {[who |-> c, call |-> call[c], attempt |-> attempt'[c], op |-> op[c],
               target |-> Target(c), rail |-> r, key |-> reg[c],
               size |-> Len(buffer[c]), checksum |-> Checksum(c),
               from |-> <<>>, got |-> <<>>, answer |-> <<>>]}
  BY DEF Send
<1>2. /\ pc[c] = "token" /\ pc' = [pc EXCEPT ![c] = "await"]
      /\ attempt' = [attempt EXCEPT ![c] = attempt[c] + 1]
      /\ UNCHANGED <<stored, versions, aware, dead, marked, reg, misblamed, buffer, op, call,
                     result, seen>>
  BY DEF Send, Goto, server, library
<1>3. PICK new :
        /\ wire' = wire \cup {new}
        /\ new = [who |-> c, call |-> call[c], attempt |-> attempt[c] + 1, op |-> op[c],
                  target |-> Target(c), rail |-> r, key |-> reg[c],
                  size |-> Len(buffer[c]), checksum |-> Checksum(c),
                  from |-> <<>>, got |-> <<>>, answer |-> <<>>]
  BY <1>1, <1>2
<1>4. /\ CallInv(c) /\ call[c] > 0 /\ op[c] \in {"put", "get", "part"}
      /\ op[c] = "part" <=> c \in Uploaders
      /\ c \in Putters => reg[c] = call[c]
  BY <1>2, RdmaAssumption DEF CallsInv, CallInv
<1>5. /\ Target(c) \in Names
      /\ Target(c) = IF op[c] = "part" THEN <<c, call[c]>> ELSE <<"object", 0>>
  BY <1>4 DEF Target, Names
<1>6. /\ Checksum(c) \in Contents
      /\ op[c] = "part" => Checksum(c) = Data(c, call[c])
  BY <1>4, EmptyFacts DEF Checksum, CallInv
<1>7. Len(buffer[c]) \in {0, 2} /\ r \in Nat
  BY RdmaAssumption, ContentsFacts
<1>8. new \in Transfers
  BY <1>3, <1>4, <1>5, <1>6, <1>7, EmptyFacts DEF Transfers
<1>9. WireInv(new)'
  <2>1. /\ new.who = c /\ new.call = call[c] /\ new.op = op[c] /\ new.target = Target(c)
        /\ new.key = reg[c] /\ new.size = Len(buffer[c]) /\ new.checksum = Checksum(c)
        /\ new.got = <<>> /\ new.answer = <<>>
    BY <1>3
  <2>2. Len(new.got) = 0 /\ new.call > 0 /\ new.call <= call[c]
    BY <1>4, <2>1, EmptyFacts
  <2>3. op[c] = "part" => Len(buffer[c]) = 2
    BY <1>4, DataFacts DEF CallInv
  <2> QED BY <1>2, <1>4, <1>5, <1>6, <1>7, <2>1, <2>2, <2>3 DEF WireInv
<1>10. CallsInv'
  <2>1. reg' = [reg EXCEPT ![c] = reg[c]] /\ result' = [result EXCEPT ![c] = result[c]]
    BY <1>2
  <2> QED BY <1>2, <1>4, <2>1, OwnStep
<1>11. RdmaTypeOK'
  BY <1>1, <1>2, <1>3, <1>7, <1>8
<1>12. WiresInv'
  BY <1>2, <1>3, <1>9, SameWires DEF WiresInv
<1> QED BY <1>2, <1>10, <1>11, <1>12, SameWires

\* An answer that counts as success is one that WireInv speaks of.
LEMMA ReceivePreserves ==
  ASSUME RdmaInv, NEW c \in Callers, Receive(c)
  PROVE  RdmaInv'
<1> USE DEF RdmaInv, RdmaTypeOK
<1>1. PICK x \in wire :
        /\ x.who = c /\ Awaited(x) /\ x.answer # <<>>
        /\ wire' = wire \ {x}
        /\ Outcome(c, IF x.op = "get" THEN rdmaGet(x) ELSE rdmaPut(x))
  BY DEF Receive
<1>2. /\ pc[c] = "await"
      /\ UNCHANGED <<stored, versions, aware, dead, buffer, op, call, seen>>
  BY DEF Receive, server
<1>3. x \in Transfers /\ WireInv(x) /\ x.call = call[c] /\ x.op = op[c] /\ x.answer \in Answered
  BY <1>1 DEF WiresInv, Transfers, WireInv, Awaited
<1> DEFINE ret == IF x.op = "get" THEN rdmaGet(x) ELSE rdmaPut(x)
           code == parseRDMAReply(x.answer.reply)
<1>4. /\ code \in {kRDMANotSupported, 200, 204, 206, 400, 500}
      /\ code \in {200, 204} => x.answer.reply \in PutReplies
      /\ code \in {200, 206} => x.answer.reply \in GetReplies
  BY <1>3, AnsweredFacts, ReplyFacts
<1> HIDE DEF code
<1>5. ret \in Int /\ (ret > 0 => Done(c))
  <2>1. CASE op[c] = "get"
    <3>1. /\ ret \in {kRDMANotSupported, -1, x.size, x.answer.bytes}
          /\ ret > 0 => code \in {200, 206}
      BY <1>3, <2>1 DEF rdmaGet, code, kRDMANotSupported
    <3>2. ret \in Int
      <4>1. x.size \in Int /\ x.answer.bytes \in Int
        BY <1>3, TransferFacts, AnsweredFacts
      <4> QED BY <3>1, <4>1 DEF kRDMANotSupported
    <3>3. ret > 0 => x.answer.reply \in GetReplies
      BY <1>1, <1>3, <1>4, <2>1, <3>1 DEF WireInv
    <3> QED BY <1>1, <1>3, <2>1, <3>2, <3>3 DEF WireInv, Done
  <2>2. CASE op[c] # "get"
    <3>1. /\ ret \in {kRDMANotSupported, -1, x.size}
          /\ ret > 0 => x.answer.etag \/ code \in {200, 204}
      BY <1>3, <2>2 DEF rdmaPut, code, kRDMANotSupported
    <3>2. ret \in Int
      BY <1>3, <3>1 DEF Transfers, kRDMANotSupported
    <3>3. ret > 0 => x.answer.etag \/ x.answer.reply \in PutReplies
      BY <1>4, <3>1
    <3>4. op[c] = "part" => x.target = Target(c)
      BY <1>1, <1>3 DEF WireInv, Target
    <3> QED BY <1>1, <1>3, <2>2, <3>2, <3>3, <3>4 DEF WireInv, Done
  <2> QED BY <2>1, <2>2
<1> HIDE DEF ret
<1>6. /\ CallsInv'
      /\ pc' \in [Callers -> {"idle", "region", "token", "await", "http"}]
      /\ reg' \in [Callers -> Nat] /\ attempt' \in [Callers -> Nat]
      /\ rail' \in [Callers -> Nat] /\ result' \in [Callers -> {"none", "ok", "err"}]
  <2>1. Outcome(c, ret)
    BY <1>1 DEF ret
  <2> QED BY <1>2, <1>5, <2>1, OutcomePreserves
<1>7. RdmaTypeOK'
  BY <1>1, <1>2, <1>6
<1>8. WiresInv'
  BY <1>1, <1>2, SameWires DEF WiresInv
<1> QED BY <1>2, <1>6, <1>7, <1>8, SameWires

LEMMA TimeoutPreserves ==
  ASSUME RdmaInv, NEW c \in Callers, Timeout(c)
  PROVE  RdmaInv'
<1> USE DEF RdmaInv, RdmaTypeOK
<1>1. /\ pc[c] = "await" /\ Outcome(c, -1)
      /\ UNCHANGED <<stored, versions, aware, dead, buffer, op, call, seen>>
  BY DEF Timeout, server
<1>2. \A x \in wire' : x \in wire \/ \E y \in wire : x = [y EXCEPT !.rail = NoRail]
  BY DEF Timeout
<1>3. \A x \in wire : WireInv(x)'
  BY <1>1, SameWires
<1>4. ASSUME NEW y \in wire
      PROVE  /\ [y EXCEPT !.rail = NoRail] \in Transfers
             /\ WireInv([y EXCEPT !.rail = NoRail])'
  <2> DEFINE x == [y EXCEPT !.rail = NoRail]
  <2>1. /\ x \in Transfers
        /\ x.who = y.who /\ x.call = y.call /\ x.op = y.op /\ x.target = y.target
        /\ x.key = y.key /\ x.size = y.size /\ x.checksum = y.checksum /\ x.from = y.from
        /\ x.got = y.got /\ x.answer = y.answer
    BY DEF Transfers, NoRail
  <2>2. WireInv(y)'
    BY <1>3
  <2> HIDE DEF x
  <2>3. WireInv(x)'
    BY <2>1, <2>2 DEF WireInv
  <2> QED BY <2>1, <2>3 DEF x
<1>5. WiresInv' /\ wire' \subseteq Transfers
  BY <1>2, <1>3, <1>4 DEF WiresInv
<1>6. /\ CallsInv'
      /\ pc' \in [Callers -> {"idle", "region", "token", "await", "http"}]
      /\ reg' \in [Callers -> Nat] /\ attempt' \in [Callers -> Nat]
      /\ rail' \in [Callers -> Nat] /\ result' \in [Callers -> {"none", "ok", "err"}]
  BY <1>1, OutcomePreserves, -1 \in Int, ~(-1 > 0)
<1>7. RdmaTypeOK'
  BY <1>1, <1>5, <1>6
<1> QED BY <1>1, <1>5, <1>6, <1>7, SameWires

----------------------------------------------------------------------------
(* The steps of the server.                                                 *)

\* A token names a registration that is still there: the call of a direct buffer
\* still waits, so what is moved is its own.
LEMMA RegisteredCall ==
  ASSUME RdmaInv, NEW x \in wire, reg[x.who] = x.key, x.who \in Putters
  PROVE  /\ pc[x.who] # "idle" /\ x.call = call[x.who]
         /\ x.op = op[x.who] /\ x.size = Len(buffer[x.who])
<1>1. x \in Transfers /\ x.who \in Callers /\ WireInv(x) /\ CallInv(x.who) /\ x.call \in Nat
  BY TransferFacts DEF RdmaInv, RdmaTypeOK, WiresInv, CallsInv
<1> QED BY <1>1 DEF WireInv, CallInv

\* A write into the buffer of a GET.
LEMMA MoveGetPreserves ==
  ASSUME RdmaInv, NEW x \in wire, Move(x), x.op = "get"
  PROVE  RdmaInv'
<1> USE DEF RdmaInv, RdmaTypeOK
<1> DEFINE c == x.who
           i == Len(x.got) + 1
<1>1. /\ x \in Transfers /\ c \in Callers /\ WireInv(x) /\ CallInv(c) /\ x.got \in Seq(Half)
      /\ c \in Putters /\ Object \in Contents
  BY TransferFacts DEF WiresInv, CallsInv, WireInv, Callers, Object
<1>2. /\ reg[c] = x.key /\ x.answer = <<>> /\ i <= Whole(x)
      /\ UNCHANGED <<stored, versions, aware, dead, marked, reg, misblamed, pc, op, call, attempt,
                     rail, result, seen>>
  BY DEF Move, Arrives, server, library, callVars
<1>3. pc[c] # "idle" /\ x.call = call[c] /\ op[c] = "get" /\ x.size = Len(buffer[c])
  BY <1>1, <1>2, RegisteredCall
<1>4. PICK d : d = Source(x)
  OBVIOUS
<1>5. d \in seen[c] /\ d \in Contents
  BY <1>1, <1>3, <1>4 DEF Source, WireInv, CallInv
<1>6. i \in {1, 2} /\ Len(d) = 2 /\ d # <<>> /\ d[i] \in Half /\ Len(x.got) \in Nat
  <2>1. i <= Len(d) /\ Len(x.got) \in Nat
    BY <1>1, <1>2, <1>4 DEF Whole
  <2>2. Len(d) \in {0, 2} /\ (d = <<>> <=> Len(d) = 0)
    BY <1>5, ContentsFacts
  <2>5. i \in Nat /\ i >= 1
    BY <2>1
  <2> HIDE DEF i
  <2>6. Len(d) # 0
    BY <2>1, <2>5
  <2>7. Len(d) = 2 /\ d # <<>>
    BY <2>2, <2>6
  <2>8. i \in 1 .. 2
    BY <2>1, <2>5, <2>7
  <2>3. i \in {1, 2} /\ Len(d) = 2 /\ d # <<>>
    BY <2>7, <2>8
  <2>4. d[i] \in Half
    BY <1>5, <2>7, <2>8, ContentsFacts
  <2> QED BY <2>1, <2>3, <2>4
<1>7. PICK y : /\ y = [x EXCEPT !.from = d, !.got = Append(x.got, d[i])]
               /\ wire' = (wire \ {x}) \cup {y}
  BY <1>4 DEF Move
<1>8. buffer' = [buffer EXCEPT ![c] = [buffer[c] EXCEPT ![i] = d[i]]]
  BY <1>4 DEF Move
<1> HIDE DEF c, i
<1>9. /\ buffer[c] \in Seq(Half) /\ Len(buffer[c]) = 2
      /\ buffer'[c] \in Seq(Half) /\ Len(buffer'[c]) = 2 /\ buffer'[c] \in Contents
      /\ \A j \in 1 .. 2 : buffer'[c][j] = IF j = i THEN d[i] ELSE buffer[c][j]
      /\ \A b \in Callers : b # c => buffer'[b] = buffer[b]
  <2>1. buffer[c] \in Seq(Half) /\ Len(buffer[c]) = 2
    BY <1>1, <1>3, ContentsFacts DEF CallInv
  <2>2. buffer'[c] = [buffer[c] EXCEPT ![i] = d[i]]
    BY <1>1, <1>8
  <2>3. i \in 1 .. Len(buffer[c])
    BY <1>6, <2>1
  <2>4. buffer'[c] \in Seq(Half) /\ Len(buffer'[c]) = 2
    BY <1>6, <2>1, <2>2, <2>3, ExceptSeq
  <2>5. \A j \in 1 .. 2 : buffer'[c][j] = IF j = i THEN d[i] ELSE buffer[c][j]
    BY <1>6, <2>1, <2>2, <2>3, ExceptSeq
  <2> QED BY <1>8, <2>1, <2>4, <2>5 DEF Contents
<1>10. buffer' \in [Callers -> Contents]
  BY <1>1, <1>8, <1>9
<1>11. /\ \A j \in 1 .. 2 : Current(c, j) => Current(c, j)'
       /\ Current(c, i)'
  BY <1>2, <1>5, <1>6, <1>9 DEF Current
<1>12. CallsInv'
  <2> SUFFICES ASSUME NEW b \in Callers PROVE CallInv(b)' /\ ResultInv(b)'
    BY DEF CallsInv
  <2>1. CallInv(b) /\ ResultInv(b) /\ Object' = Object
    BY <1>2 DEF CallsInv, Object
  <2>2. CASE b = c
    BY <1>2, <1>3, <1>9, <2>1, <2>2 DEF CallInv, ResultInv
  <2>3. CASE b # c
    BY <1>2, <1>9, <2>1, <2>3, CallFrame, ResultFrame DEF CallInv
  <2> QED BY <2>2, <2>3
<1>13. ASSUME NEW z \in wire PROVE WireInv(z)'
  <2>1. WireInv(z) /\ z.who \in Callers
    BY TransferFacts DEF WiresInv
  <2>2. CASE z.who # c
    BY <1>2, <1>9, <2>1, <2>2, WireFrame
  <2>3. CASE z.who = c
    <3>1. z.call = call[c] => z.op = "get"
      BY <1>3, <2>1, <2>3 DEF WireInv
    <3>2. Len(z.got) \in Nat
      BY TransferFacts
    <3>3. z.op = "get" /\ z.call = call[c] => 
            /\ Len(z.got) <= 2
            /\ \A j \in 1 .. Len(z.got) : Current(c, j)'
            /\ (\A j \in 1 .. 2 : Current(c, j)) => \A j \in 1 .. 2 : Current(c, j)'
      BY <1>11, <2>1, <2>3, <3>2 DEF WireInv
    <3>4. CASE z.call = call[c]
      BY <1>2, <1>9, <2>1, <2>3, <3>1, <3>3, <3>4 DEF WireInv
    <3>5. CASE z.call # call[c]
      BY <1>2, <2>1, <2>3, <3>5 DEF WireInv
    <3> QED BY <3>4, <3>5
  <2> QED BY <2>2, <2>3
<1>14. /\ y \in Transfers
       /\ y.who = c /\ y.call = x.call /\ y.op = x.op /\ y.key = x.key /\ y.size = x.size
       /\ y.answer = <<>> /\ y.from = d /\ y.got = Append(x.got, d[i])
  <2>1. Append(x.got, d[i]) \in Seq(Half)
    BY <1>1, <1>6
  <2> QED BY <1>1, <1>2, <1>5, <1>7, <2>1 DEF Transfers, c
<1>15. WireInv(y)'
  <2>1. Len(y.got) = i
    BY <1>1, <1>14 DEF i
  <2>2. \A j \in 1 .. Len(y.got) : Current(c, j)'
    <3>1. \A j \in 1 .. Len(x.got) : Current(c, j)
      BY <1>1, <1>3 DEF WireInv, c
    <3>2. \A j \in 1 .. i : j = i \/ j \in 1 .. Len(x.got)
      BY <1>6 DEF i
    <3>3. \A j \in 1 .. i : j \in 1 .. 2
      BY <1>6
    <3> QED BY <1>11, <2>1, <3>1, <3>2, <3>3
  <2>3. WireInv(x)'
    BY <1>13
  <2> QED BY <1>2, <1>3, <1>5, <1>6, <1>9, <1>14, <2>1, <2>2, <2>3, x.op = "get" DEF WireInv, c
<1>16. WiresInv' /\ wire' \subseteq Transfers
  BY <1>7, <1>13, <1>14, <1>15 DEF WiresInv
<1>17. RdmaTypeOK'
  BY <1>2, <1>10, <1>16
<1> QED BY <1>2, <1>12, <1>16, <1>17, StoredFrame

\* A read from the buffer of a PUT or a part.
LEMMA MovePutPreserves ==
  ASSUME RdmaInv, NEW x \in wire, Move(x), x.op # "get"
  PROVE  RdmaInv'
<1> USE DEF RdmaInv, RdmaTypeOK
<1>1. /\ x \in Transfers /\ x.who \in Callers /\ WireInv(x) /\ CallInv(x.who)
      /\ x.got \in Seq(Half) /\ Len(x.got) \in Nat /\ x.op \in {"put", "part"} /\ x.call \in Nat
  BY TransferFacts DEF WiresInv, CallsInv
<1>2. PICK i \in Nat : i = Len(x.got) + 1
  BY <1>1
<1>3. /\ reg[x.who] = x.key /\ x.answer = <<>> /\ i <= x.size
      /\ UNCHANGED <<stored, versions, aware, dead, buffer, marked, reg, misblamed, pc, op, call,
                     attempt, rail, result, seen>>
  BY <1>2 DEF Move, Arrives, Whole, server, library, callVars
<1>4. PICK h : h = buffer[x.who][i]
  OBVIOUS
<1>5. PICK y : /\ y = [x EXCEPT !.from = <<>>, !.got = Append(x.got, h)]
               /\ wire' = (wire \ {x}) \cup {y}
  BY <1>2, <1>4 DEF Move, Source
<1>6. h \in Half /\ i <= x.size /\ (x.op = "put" => h = <<x.who, x.call>>)
  <2>1. CASE x.op = "part"
    <3>1. x.who \in Uploaders /\ x.size = 2 /\ call[x.who] \in Nat /\ call[x.who] > 0
      BY <1>1, <2>1 DEF WireInv
    <3>2. buffer[x.who] = Data(x.who, call[x.who])
      BY <1>1, <3>1, RdmaAssumption DEF CallInv
    <3>3. Len(buffer[x.who]) = 2 /\ buffer[x.who] \in Contents
      BY <3>1, <3>2, <1>1, DataFacts
    <3>4. x.size = 2 /\ i >= 1
      BY <1>1, <1>2, <3>1
    <3>5. i \in 1 .. 2
      BY <1>3, <3>4
    <3> QED BY <1>3, <1>4, <2>1, <3>3, <3>5, ContentsFacts
  <2>2. CASE x.op = "put"
    <3>1. x.who \in Putters
      BY <1>1, <2>2 DEF WireInv, Callers
    <3>2. x.call = call[x.who] /\ op[x.who] = "put" /\ x.size = Len(buffer[x.who])
      BY <1>3, <2>2, <3>1, RegisteredCall
    <3>3. x.size # 0 /\ x.size \in {0, 2}
      BY <1>1, <1>2, <1>3, <2>2 DEF WireInv
    <3>4. buffer[x.who] = Data(x.who, x.call)
      BY <1>1, <3>2, <3>3, EmptyFacts DEF CallInv
    <3>5. i \in 1 .. 2
      <4>1. x.size = 2 /\ i >= 1
        BY <1>1, <1>2, <3>3
      <4> QED BY <1>3, <4>1
    <3>6. h = <<x.who, x.call>> /\ h \in Half
      <4>1. i = 1 \/ i = 2
        BY <3>5
      <4>2. Data(x.who, x.call)[i] = <<x.who, x.call>>
        BY <1>1, <4>1, DataFacts
      <4> QED BY <1>1, <1>4, <3>4, <4>2 DEF Half
    <3> QED BY <1>3, <2>2, <3>6
  <2> QED BY <1>1, <2>1, <2>2
<1>7. /\ y \in Transfers
      /\ y.who = x.who /\ y.call = x.call /\ y.op = x.op /\ y.key = x.key /\ y.size = x.size
      /\ y.target = x.target /\ y.checksum = x.checksum /\ y.answer = <<>>
      /\ y.got = Append(x.got, h)
  <2>1. Append(x.got, h) \in Seq(Half) /\ <<>> \in Contents
    BY <1>1, <1>6, EmptyFacts
  <2> QED BY <1>1, <1>3, <1>5, <2>1 DEF Transfers
<1>8. \A z \in wire : WireInv(z)'
  BY <1>3, SameWires
<1>9. WireInv(y)'
  <2>1. Len(y.got) = i /\ \A j \in 1 .. i : y.got[j] = IF j = i THEN h ELSE x.got[j]
    BY <1>1, <1>2, <1>6, <1>7, AppendProperties
  <2>2. x.op = "put" => \A j \in 1 .. i : y.got[j] = <<x.who, x.call>>
    <3>1. \A j \in 1 .. i : j = i \/ j \in 1 .. Len(x.got)
      BY <1>1, <1>2
    <3> QED BY <1>1, <1>6, <2>1, <3>1 DEF WireInv
  <2> QED BY <1>1, <1>3, <1>6, <1>7, <1>8, <2>1, <2>2 DEF WireInv
<1>10. WiresInv' /\ wire' \subseteq Transfers
  BY <1>5, <1>7, <1>8, <1>9 DEF WiresInv
<1>11. RdmaTypeOK'
  BY <1>3, <1>10
<1>12. CallsInv'
  BY <1>3 DEF CallsInv, CallInv, ResultInv, Done, Current, Target, Object
<1> QED BY <1>3, <1>10, <1>11, <1>12, StoredFrame

\* The answer of the server: what it says is so.
LEMMA AnswerPreserves ==
  ASSUME RdmaInv, NEW x \in wire, NEW a \in Answered, Answers(x, a),
         UNCHANGED <<library, buffer, callVars>>,
         UNCHANGED <<versions, aware, dead>>,
         <<"object", 0>> \in DOMAIN stored',
         \A n \in DOMAIN stored' : stored'[n] \in Contents,
         DOMAIN stored \subseteq DOMAIN stored',
         seen' \in [Callers -> SUBSET Contents],
         \A c \in Callers : seen[c] \subseteq seen'[c] /\ (pc[c] # "idle" => Object' \in seen'[c]),
         StoredWhole',
         Awaited(x) /\ aware /\ (a.etag \/ a.reply \in PutReplies) =>
           /\ x.op = "put" => buffer[x.who] \in seen'[x.who]
           /\ x.op = "part" => x.target \in DOMAIN stored',
         Awaited(x) /\ x.op = "get" /\ a.reply \in GetReplies =>
           <<>> \in seen'[x.who] \/ \A i \in 1 .. 2 : Current(x.who, i)
  PROVE  RdmaInv'
<1> USE DEF RdmaInv, RdmaTypeOK
<1>1. UNCHANGED <<marked, reg, misblamed, pc, op, call, attempt, rail, result>>
  BY DEF library, callVars
<1>2. PICK y : y = [x EXCEPT !.answer = a]
  OBVIOUS
<1>3. \A z \in wire' : z \in wire \/ (z = y /\ Awaited(x))
  BY <1>2 DEF Answers
<1>4. ASSUME NEW z \in wire PROVE WireInv(z)'
  BY <1>1, TransferFacts, WireFrame DEF WiresInv
<1>5. /\ y \in Transfers
      /\ y.who = x.who /\ y.call = x.call /\ y.op = x.op /\ y.key = x.key /\ y.size = x.size
      /\ y.target = x.target /\ y.checksum = x.checksum /\ y.got = x.got /\ y.from = x.from
      /\ y.answer = a
  <2>1. x \in Transfers
    OBVIOUS
  <2> QED BY <1>2, <2>1 DEF Transfers
<1>6. WireInv(y)' \/ ~Awaited(x)
  <2> SUFFICES ASSUME Awaited(x) PROVE WireInv(y)'
    OBVIOUS
  <2>1. WireInv(x)' /\ x.who \in Callers
    BY <1>4, TransferFacts
  <2>2. \A i : Current(x.who, i) => Current(x.who, i)'
    BY <2>1 DEF Current
  <2> QED BY <1>1, <1>5, <2>1, <2>2 DEF WireInv
<1>7. WiresInv' /\ wire' \subseteq Transfers
  BY <1>3, <1>4, <1>5, <1>6 DEF WiresInv
<1>8. RdmaTypeOK'
  BY <1>1, <1>7
<1>9. CallsInv'
  BY <1>1, CallFrame, ResultFrame DEF CallsInv
<1> QED BY <1>7, <1>8, <1>9

\* An answer by itself changes nothing else.
LEMMA OnlyAnswerPreserves ==
  ASSUME RdmaInv, NEW x \in wire, NEW a \in Answered, Answers(x, a),
         UNCHANGED <<library, buffer, callVars>>, UNCHANGED <<server, seen>>,
         ~(a.etag \/ a.reply \in PutReplies) \/ ~aware \/ x.op = "get",
         Awaited(x) /\ x.op = "get" /\ a.reply \in GetReplies =>
           <<>> \in seen[x.who] \/ \A i \in 1 .. 2 : Current(x.who, i)
  PROVE  RdmaInv'
<1>1. UNCHANGED <<stored, versions, aware, dead>> /\ Object' = Object
  BY DEF server, Object
<1>2. \A c \in Callers : pc[c] # "idle" => Object' \in seen[c]
  BY <1>1 DEF RdmaInv, CallsInv, CallInv
<1>3. StoredWhole'
  BY <1>1, StoredFrame DEF RdmaInv
<1> QED BY <1>1, <1>2, <1>3, AnswerPreserves DEF RdmaInv, RdmaTypeOK

LEMMA FinishPreserves ==
  ASSUME RdmaInv, NEW x \in wire, Finish(x)
  PROVE  RdmaInv'
<1> USE DEF RdmaInv, RdmaTypeOK
<1>1. /\ x \in Transfers /\ x.who \in Callers /\ WireInv(x) /\ CallInv(x.who)
      /\ x.got \in Seq(Half) /\ Len(x.got) \in Nat /\ x.op \in {"put", "get", "part"}
      /\ x.call \in Nat /\ x.target \in Names
  BY TransferFacts DEF WiresInv, CallsInv
<1>2. Len(x.got) = Whole(x) /\ UNCHANGED <<library, buffer, callVars>>
  BY DEF Finish
<1>3. \A e \in BOOLEAN, r \in PutReplies \cup GetReplies, b \in Int :
        /\ Headers(e, r, b) \in Answered
        /\ Headers(e, r, b).etag = e /\ Headers(e, r, b).reply = r
  BY DEF Headers, Answered, Replies, PutReplies, GetReplies
<1>4. CASE x.op # "get" /\ x.checksum \in {<<>>, x.got} /\ Stores(x.target, x.got)
           /\ \E e \in BOOLEAN, r \in PutReplies : Answers(x, Headers(e, r, 0))
  <2>1. Len(x.got) = x.size
    BY <1>2, <1>4 DEF Whole
  <2>2. CASE x.op = "put"
    <3>1. x.got \in Contents /\ x.target = <<"object", 0>>
      BY <1>1, <2>1, <2>2 DEF WireInv, Contents
    <3>2. x.got = <<>> \/ (Len(x.got) = 2 /\ x.got[1] = <<x.who, x.call>>
                                          /\ x.got[2] = <<x.who, x.call>>)
      BY <1>1, <2>2, <3>1, ContentsFacts DEF WireInv
    <3>3. Awaited(x) => x.got = buffer[x.who] /\ pc[x.who] # "idle"
      <4> SUFFICES ASSUME Awaited(x) PROVE x.got = buffer[x.who]
        BY DEF Awaited
      <4>1. x.call = call[x.who] /\ op[x.who] = "put" /\ Len(buffer[x.who]) = Len(x.got)
        BY <1>1, <2>1, <2>2 DEF Awaited, WireInv
      <4>2. buffer[x.who] \in {Data(x.who, x.call), <<>>}
        BY <1>1, <4>1 DEF CallInv
      <4>3. CASE x.got = <<>>
        BY <1>1, <4>1, <4>2, <4>3, DataFacts, EmptyFacts
      <4>4. CASE x.got # <<>>
        <5>1. x.got = Data(x.who, x.call)
          BY <1>1, <3>2, <4>4, DataIs
        <5> QED BY <3>2, <4>1, <4>2, <4>4, <5>1, EmptyFacts
      <4> QED BY <4>3, <4>4
    <3>4. /\ <<"object", 0>> \in DOMAIN stored'
          /\ \A n \in DOMAIN stored' : stored'[n] \in Contents
          /\ DOMAIN stored \subseteq DOMAIN stored'
          /\ seen' \in [Callers -> SUBSET Contents]
          /\ \A c \in Callers : seen[c] \subseteq seen'[c] /\ (pc[c] # "idle" => Object' \in seen'[c])
          /\ Awaited(x) => buffer[x.who] \in seen'[x.who]
          /\ StoredWhole'
          /\ UNCHANGED <<versions, aware, dead>>
      <4>1. x.target[1] = "object" /\ Stores(x.target, x.got)
        BY <1>4, <3>1
      <4>2. x.got = <<>> \/ x.got[1] = x.got[2]
        BY <3>2
      <4>3. x.got \in Contents /\ (x.target[1] # "object" => x.got = Data(x.target[1], x.target[2]))
        BY <3>1, <4>1
      <4>4. /\ <<"object", 0>> \in DOMAIN stored'
            /\ \A n \in DOMAIN stored' : stored'[n] \in Contents
            /\ x.target \in DOMAIN stored'
            /\ DOMAIN stored \subseteq DOMAIN stored'
            /\ seen' \in [Callers -> SUBSET Contents]
            /\ \A c \in Callers :
                 /\ seen[c] \subseteq seen'[c]
                 /\ pc[c] # "idle" => Object' \in seen'[c]
                 /\ pc[c] # "idle" /\ x.target = <<"object", 0>> => x.got \in seen'[c]
            /\ StoredWhole'
            /\ UNCHANGED <<versions, aware, dead>>
        BY <1>1, <4>1, <4>2, <4>3, StoresFacts, Zenon DEF RdmaInv
      <4> QED BY <1>1, <3>1, <3>3, <4>4, Zenon
    <3>5. PICK e \in BOOLEAN, r \in PutReplies : Answers(x, Headers(e, r, 0))
      BY <1>4
    <3>6. Headers(e, r, 0) \in Answered
      BY <1>3
    <3> QED BY <1>2, <2>2, <3>4, <3>5, <3>6, AnswerPreserves
  <2>3. CASE x.op = "part"
    <3>1. x.target = <<x.who, x.call>> /\ x.got = Data(x.who, x.call)
      BY <1>1, <1>4, <2>3, DataFacts DEF WireInv
    <3>2. x.got \in Contents /\ x.got[1] = x.got[2]
      <4>1. x.who \in Callers \cup {"other", "none"} /\ x.call \in Nat
        BY <1>1
      <4>2. Data(x.who, x.call) \in Contents /\ Data(x.who, x.call)[1] = Data(x.who, x.call)[2]
        BY <4>1, DataFacts
      <4> QED BY <3>1, <4>2
    <3>3. /\ <<"object", 0>> \in DOMAIN stored'
          /\ \A n \in DOMAIN stored' : stored'[n] \in Contents
          /\ DOMAIN stored \subseteq DOMAIN stored'
          /\ seen' \in [Callers -> SUBSET Contents]
          /\ \A c \in Callers : seen[c] \subseteq seen'[c] /\ (pc[c] # "idle" => Object' \in seen'[c])
          /\ x.target \in DOMAIN stored'
          /\ StoredWhole'
          /\ UNCHANGED <<versions, aware, dead>>
      <4>1. /\ x.target \in Names /\ Stores(x.target, x.got)
            /\ x.got = <<>> \/ x.got[1] = x.got[2]
            /\ x.target[1] # "object" => x.got = Data(x.target[1], x.target[2])
        BY <1>1, <1>4, <3>1, <3>2
      <4>2. RdmaTypeOK /\ CallsInv /\ StoredWhole
        BY DEF RdmaInv
      <4> HIDE DEF RdmaInv, RdmaTypeOK
      <4> QED BY <3>2, <4>1, <4>2, StoresFacts, Zenon
    <3>4. PICK e \in BOOLEAN, r \in PutReplies : Answers(x, Headers(e, r, 0))
      BY <1>4
    <3>5. Headers(e, r, 0) \in Answered
      BY <1>3
    <3> QED BY <1>2, <2>3, <3>3, <3>4, <3>5, AnswerPreserves
  <2> QED BY <1>1, <1>4, <2>2, <2>3
<1>5. CASE x.op # "get" /\ Answers(x, Headers(FALSE, "400", 0)) /\ UNCHANGED <<server, seen>>
  <2>1. /\ Headers(FALSE, "400", 0) \in Answered
        /\ Headers(FALSE, "400", 0).etag = FALSE /\ Headers(FALSE, "400", 0).reply = "400"
    BY DEF Headers, Answered, Replies, PutReplies, GetReplies
  <2> QED BY <1>2, <1>5, <2>1, OnlyAnswerPreserves DEF PutReplies, GetReplies
<1>6. CASE x.op = "get"
           /\ (\E b \in {Len(x.got), -1}, r \in GetReplies : Answers(x, Headers(TRUE, r, b)))
           /\ UNCHANGED <<server, seen>>
  <2>1. Awaited(x) => <<>> \in seen[x.who] \/ \A i \in 1 .. 2 : Current(x.who, i)
    <3> SUFFICES ASSUME Awaited(x)
                 PROVE  <<>> \in seen[x.who] \/ \A i \in 1 .. 2 : Current(x.who, i)
      OBVIOUS
    <3>1. x.call = call[x.who] /\ pc[x.who] # "idle"
      BY DEF Awaited
    <3>2. Len(x.got) = Len(Source(x))
      BY <1>2, <1>6 DEF Whole
    <3>3. CASE x.got = <<>>
      <4>1. Object \in Contents /\ Object \in seen[x.who] /\ Len(Object) = 0
        BY <1>1, <1>6, <3>1, <3>2, <3>3, EmptyFacts DEF Source, Object, CallInv
      <4> QED BY <4>1, ContentsFacts
    <3>4. CASE x.got # <<>>
      <4>1. Len(x.got) = 2 /\ \A i \in 1 .. Len(x.got) : Current(x.who, i)
        BY <1>1, <1>6, <3>1, <3>2, <3>4 DEF Source, WireInv
      <4> QED BY <4>1
    <3> QED BY <3>3, <3>4
  <2>2. PICK b \in Int, r \in GetReplies : Answers(x, Headers(TRUE, r, b))
    <3>1. {Len(x.got), -1} \subseteq Int
      BY <1>1
    <3> QED BY <1>6, <3>1
  <2> QED BY <1>2, <1>3, <1>6, <2>1, <2>2, OnlyAnswerPreserves
<1> QED BY <1>4, <1>5, <1>6 DEF Finish

LEMMA RefusePreserves ==
  ASSUME RdmaInv, NEW x \in wire, Refuse(x)
  PROVE  RdmaInv'
<1>1. PICK reply \in {"500", "501"} : Answers(x, Headers(FALSE, reply, 0))
  BY DEF Refuse
<1>2. /\ Headers(FALSE, reply, 0) \in Answered
      /\ Headers(FALSE, reply, 0).etag = FALSE /\ Headers(FALSE, reply, 0).reply = reply
  BY DEF Headers, Answered, Replies, PutReplies, GetReplies
<1> QED BY <1>1, <1>2, OnlyAnswerPreserves DEF Refuse, PutReplies, GetReplies

\* A server that ignores the token stores an empty object.
LEMMA IgnorePreserves ==
  ASSUME RdmaInv, NEW x \in wire, Ignore(x)
  PROVE  RdmaInv'
<1> USE DEF RdmaInv, RdmaTypeOK
<1>1. /\ x \in Transfers /\ x.who \in Callers /\ WireInv(x) /\ x.target \in Names
      /\ x.op \in {"put", "get", "part"} /\ ~aware
  BY TransferFacts DEF WiresInv, Ignore
<1>2. UNCHANGED <<library, buffer, callVars>>
  BY DEF Ignore
<1>3. \A e \in BOOLEAN :
        /\ Headers(e, "absent", 0) \in Answered
        /\ Headers(e, "absent", 0).etag = e /\ Headers(e, "absent", 0).reply = "absent"
  BY DEF Headers, Answered, Replies, PutReplies, GetReplies
<1>4. CASE x.op = "put" /\ Stores(x.target, <<>>) /\ Answers(x, Headers(TRUE, "absent", 0))
  <2>1. x.target[1] = "object"
    BY <1>1, <1>4 DEF WireInv
  <2>2. /\ <<"object", 0>> \in DOMAIN stored'
        /\ \A n \in DOMAIN stored' : stored'[n] \in Contents
        /\ DOMAIN stored \subseteq DOMAIN stored'
        /\ seen' \in [Callers -> SUBSET Contents]
        /\ \A c \in Callers : seen[c] \subseteq seen'[c] /\ (pc[c] # "idle" => Object' \in seen'[c])
        /\ StoredWhole'
        /\ UNCHANGED <<versions, aware, dead>>
    BY <1>1, <1>4, <2>1, EmptyFacts, StoresFacts
  <2> QED BY <1>1, <1>2, <1>3, <1>4, <2>2, AnswerPreserves
<1>5. CASE x.op # "put" /\ Answers(x, Headers(x.op = "get", "absent", 0))
           /\ UNCHANGED <<server, seen>>
  <2>1. PICK e \in BOOLEAN : Answers(x, Headers(e, "absent", 0))
    BY <1>5
  <2> QED BY <1>1, <1>2, <1>3, <1>5, <2>1, OnlyAnswerPreserves DEF PutReplies, GetReplies
<1> QED BY <1>4, <1>5 DEF Ignore

----------------------------------------------------------------------------
(* The ordinary request.                                                    *)

LEMMA HttpFails ==
  ASSUME RdmaInv, NEW c \in Callers, pc[c] = "http", Return(c, "err"),
         UNCHANGED <<server, seen, buffer>>, UNCHANGED <<library, wire, op, call, attempt, rail>>
  PROVE  RdmaInv'
<1> USE DEF RdmaInv, RdmaTypeOK
<1>1. /\ pc' = [pc EXCEPT ![c] = "idle"] /\ result' = [result EXCEPT ![c] = "err"]
      /\ reg' = [reg EXCEPT ![c] = reg[c]]
      /\ UNCHANGED <<stored, versions, aware, dead, buffer, op, call, seen>>
  BY DEF Return, Goto, server, library
<1>2. c \in Putters => reg[c] = 0
  BY DEF CallsInv, CallInv
<1>3. CallsInv'
  BY <1>1, <1>2, OwnStep
<1>4. RdmaTypeOK'
  BY <1>1
<1> QED BY <1>1, <1>3, <1>4, SameWires DEF WiresInv

LEMMA HttpStores ==
  ASSUME RdmaInv, NEW c \in Callers, pc[c] = "http", NEW r \in {"ok", "err"}, Return(c, r),
         op[c] # "get", Stores(Target(c), buffer[c]), UNCHANGED buffer,
         UNCHANGED <<library, wire, op, call, attempt, rail>>
  PROVE  RdmaInv'
<1> USE DEF RdmaInv, RdmaTypeOK
<1>1. /\ pc' = [pc EXCEPT ![c] = "idle"] /\ result' = [result EXCEPT ![c] = r]
      /\ UNCHANGED reg
  BY DEF Return, Goto, library
<1>2. CallInv(c) /\ ResultInv(c) /\ op[c] \in {"put", "part"} /\ buffer[c] \in Contents
  BY DEF CallsInv, CallInv
<1>3. /\ Target(c) \in Names
      /\ Target(c) = IF op[c] = "part" THEN <<c, call[c]>> ELSE <<"object", 0>>
  BY <1>2, RdmaAssumption DEF Target, Names, CallInv
<1>4. /\ buffer[c] = <<>> \/ buffer[c][1] = buffer[c][2]
      /\ Target(c)[1] # "object" => buffer[c] = Data(Target(c)[1], Target(c)[2])
  <2>1. CASE op[c] = "part"
    <3>1. buffer[c] = Data(c, call[c]) /\ Target(c) = <<c, call[c]>> /\ call[c] \in Nat
      BY <1>2, <1>3, <2>1 DEF CallInv
    <3>2. Data(c, call[c])[1] = Data(c, call[c])[2]
      BY <3>1, DataFacts
    <3> QED BY <3>1, <3>2
  <2>2. CASE op[c] = "put"
    <3>1. buffer[c] \in {Data(c, call[c]), <<>>} /\ Target(c)[1] = "object"
      BY <1>2, <1>3, <2>2 DEF CallInv
    <3>2. Data(c, call[c])[1] = Data(c, call[c])[2]
      BY DEF Data
    <3> QED BY <3>1, <3>2
  <2> QED BY <1>2, <2>1, <2>2
<1>5. /\ <<"object", 0>> \in DOMAIN stored'
      /\ \A n \in DOMAIN stored' : stored'[n] \in Contents
      /\ Target(c) \in DOMAIN stored'
      /\ DOMAIN stored \subseteq DOMAIN stored'
      /\ seen' \in [Callers -> SUBSET Contents]
      /\ \A b \in Callers : /\ seen[b] \subseteq seen'[b]
                            /\ pc[b] # "idle" => Object' \in seen'[b]
      /\ Target(c) = <<"object", 0>> => buffer[c] \in seen'[c]
      /\ StoredWhole'
      /\ UNCHANGED <<versions, aware, dead>>
  BY <1>2, <1>3, <1>4, StoresFacts
<1>6. RdmaTypeOK'
  BY <1>1, <1>5
<1>7. WiresInv'
  BY <1>5, TransferFacts, WireFrame DEF WiresInv
<1>8. CallsInv'
  <2> SUFFICES ASSUME NEW b \in Callers PROVE CallInv(b)' /\ ResultInv(b)'
    BY DEF CallsInv
  <2>1. CallInv(b) /\ ResultInv(b)
    BY DEF CallsInv
  <2>2. CASE b # c
    <3>1. pc'[b] = pc[b] /\ result'[b] = result[b]
      BY <1>1, <2>2
    <3> QED BY <1>1, <1>5, <2>1, <3>1, CallFrame, ResultFrame
  <2>3. CASE b = c
    <3>1. pc'[c] = "idle"
      BY <1>1
    <3>2. CallInv(c)'
      BY <1>1, <1>2, <3>1 DEF CallInv
    <3>3. ResultInv(c)'
      BY <1>1, <1>2, <1>3, <1>5 DEF ResultInv, Done, Target
    <3> QED BY <2>3, <3>2, <3>3
  <2> QED BY <2>2, <2>3
<1> QED BY <1>5, <1>6, <1>7, <1>8

\* The object is written over what transfers left in the buffer.
LEMMA HttpReads ==
  ASSUME RdmaInv, NEW c \in Callers, pc[c] = "http", NEW r \in {"ok", "err"}, Return(c, r),
         op[c] = "get",
         buffer' = [buffer EXCEPT ![c] = [i \in 1 .. 2 |-> IF i <= Len(Object)
                                                          THEN Object[i] ELSE @[i]]],
         UNCHANGED <<server, seen>>,
         UNCHANGED <<library, wire, op, call, attempt, rail>>
  PROVE  RdmaInv'
<1> USE DEF RdmaInv, RdmaTypeOK
<1>1. /\ pc' = [pc EXCEPT ![c] = "idle"] /\ result' = [result EXCEPT ![c] = r]
      /\ UNCHANGED <<stored, versions, aware, dead, marked, reg, misblamed, wire, op, call,
                     attempt, rail, seen>>
  BY DEF Return, Goto, library, server
<1>2. /\ CallInv(c) /\ ResultInv(c) /\ buffer[c] \in Contents /\ Len(buffer[c]) = 2
      /\ Object \in seen[c] /\ Object \in Contents
  BY DEF CallsInv, CallInv, Object
<1>3. PICK d : d = [i \in 1 .. 2 |-> IF i <= Len(Object) THEN Object[i] ELSE buffer[c][i]]
  OBVIOUS
<1>4. buffer' = [buffer EXCEPT ![c] = d]
  BY <1>3
<1>5. d \in Contents /\ Len(d) = 2
  <2>1. \A i \in 1 .. 2 : d[i] \in Half
    <3> SUFFICES ASSUME NEW i \in 1 .. 2 PROVE d[i] \in Half
      OBVIOUS
    <3>1. CASE i <= Len(Object)
      <4>1. i \in 1 .. Len(Object)
        BY <1>2, <3>1, ContentsFacts
      <4>2. Object[i] \in Half
        BY <1>2, <4>1, ContentsFacts
      <4> QED BY <1>3, <3>1, <4>2
    <3>2. CASE ~(i <= Len(Object))
      <4>1. i \in 1 .. Len(buffer[c])
        BY <1>2
      <4>2. buffer[c][i] \in Half
        BY <1>2, <4>1, ContentsFacts
      <4> QED BY <1>3, <3>2, <4>2
    <3> QED BY <3>1, <3>2
  <2>2. d \in [1 .. 2 -> Half]
    BY <1>3, <2>1
  <2>3. d \in Seq(Half) /\ Len(d) = 2
    BY <2>2, PairFacts
  <2> QED BY <2>3 DEF Contents
<1>6. Object = <<>> \/ \A i \in 1 .. 2 : Current(c, i)'
  <2> SUFFICES ASSUME Object # <<>>, NEW i \in 1 .. 2 PROVE Current(c, i)'
    OBVIOUS
  <2>1. Len(Object) = 2
    BY <1>2, ContentsFacts
  <2>2. buffer'[c][i] = Object[i]
    BY <1>3, <1>4, <2>1
  <2> QED BY <1>2, <2>2 DEF Current
<1>7. \A i \in 1 .. 2 : Current(c, i) => Current(c, i)'
  <2> SUFFICES ASSUME NEW i \in 1 .. 2, Current(c, i), Object = <<>> PROVE Current(c, i)'
    BY <1>6
  <2>1. buffer'[c][i] = buffer[c][i]
    BY <1>3, <1>4, EmptyFacts
  <2> QED BY <2>1 DEF Current
<1>8. RdmaTypeOK'
  <2>1. buffer' \in [Callers -> Contents]
    BY <1>4, <1>5
  <2> QED BY <1>1, <2>1
<1>9. WiresInv'
  <2> SUFFICES ASSUME NEW z \in wire PROVE WireInv(z)'
    BY DEF WiresInv
  <2>1. WireInv(z) /\ z.who \in Callers /\ z.got \in Seq(Half) /\ Len(z.got) \in Nat
    BY TransferFacts DEF WiresInv
  <2>2. CASE z.who # c
    <3>1. buffer'[z.who] = buffer[z.who]
      BY <1>4, <2>2
    <3> QED BY <1>1, <2>1, <3>1, WireFrame
  <2>3. CASE z.who = c /\ z.call # call[c]
    BY <1>1, <2>1, <2>3 DEF WireInv
  <2>4. CASE z.who = c /\ z.call = call[c]
    <3>1. z.op = "get" /\ z.size = 2 /\ Len(buffer'[c]) = 2 /\ Len(z.got) <= 2
      BY <1>2, <1>4, <1>5, <2>1, <2>4 DEF WireInv
    <3>2. \A i \in 1 .. Len(z.got) : Current(c, i)'
      <4>1. \A i \in 1 .. Len(z.got) : Current(c, i)
        BY <2>1, <2>4, <3>1 DEF WireInv
      <4>2. \A i \in 1 .. Len(z.got) : i \in 1 .. 2
        BY <2>1, <3>1
      <4> QED BY <1>7, <4>1, <4>2
    <3>3. z.answer # <<>> /\ z.answer.reply \in GetReplies =>
            <<>> \in seen[c] \/ \A i \in 1 .. 2 : Current(c, i)'
      <4>1. z.answer # <<>> /\ z.answer.reply \in GetReplies =>
              <<>> \in seen[c] \/ \A i \in 1 .. 2 : Current(c, i)
        BY <2>1, <2>4, <3>1 DEF WireInv
      <4> QED BY <1>7, <4>1
    <3> QED BY <1>1, <2>1, <2>4, <3>1, <3>2, <3>3 DEF WireInv
  <2> QED BY <2>2, <2>3, <2>4
<1>10. CallsInv'
  <2> SUFFICES ASSUME NEW b \in Callers PROVE CallInv(b)' /\ ResultInv(b)'
    BY DEF CallsInv
  <2>1. CallInv(b) /\ ResultInv(b) /\ Object' = Object
    BY <1>1 DEF CallsInv, Object
  <2>2. CASE b # c
    <3>1. pc'[b] = pc[b] /\ result'[b] = result[b] /\ buffer'[b] = buffer[b]
      BY <1>1, <1>4, <2>2
    <3>2. pc[b] # "idle" => Object' \in seen'[b]
      BY <2>1 DEF CallInv
    <3> QED BY <1>1, <2>1, <3>1, <3>2, CallFrame, ResultFrame
  <2>3. CASE b = c
    <3>1. pc'[c] = "idle" /\ buffer'[c] = d
      BY <1>1, <1>4
    <3>2. CallInv(c)'
      BY <1>1, <1>2, <1>5, <3>1 DEF CallInv
    <3>3. ResultInv(c)'
      BY <1>2, <1>6 DEF ResultInv, Done
    <3> QED BY <2>3, <3>2, <3>3
  <2> QED BY <2>2, <2>3
<1> QED BY <1>1, <1>8, <1>9, <1>10, StoredFrame

LEMMA HttpPreserves ==
  ASSUME RdmaInv, NEW c \in Callers, Http(c)
  PROVE  RdmaInv'
BY HttpFails, HttpStores, HttpReads DEF Http

----------------------------------------------------------------------------
(* The theorems.                                                            *)

LEMMA RdmaNext == RdmaInv /\ [Next]_vars => RdmaInv'
<1> SUFFICES ASSUME RdmaInv, [Next]_vars PROVE RdmaInv'
  OBVIOUS
<1>1. CASE Replace
  BY <1>1, ReplacePreserves
<1>2. ASSUME NEW c \in Callers, AnyCall(c) PROVE RdmaInv'
  BY <1>2, CallPreserves
<1>3. ASSUME NEW c \in Callers, Step(c) PROVE RdmaInv'
  BY <1>3, RegisterPreserves, SendPreserves, NothingSentPreserves, ReceivePreserves,
     TimeoutPreserves, HttpPreserves DEF Step
<1>4. ASSUME NEW x \in wire, Move(x) \/ Finish(x) \/ Refuse(x) \/ Ignore(x) PROVE RdmaInv'
  BY <1>4, MoveGetPreserves, MovePutPreserves, FinishPreserves, RefusePreserves, IgnorePreserves
<1>5. CASE UNCHANGED vars
  <2>1. UNCHANGED <<stored, versions, aware, dead, marked, reg, misblamed, buffer, wire, pc, op,
                    call, attempt, rail, result, seen>>
    BY <1>5 DEF vars, server, library, callVars
  <2>2. RdmaTypeOK'
    BY <2>1 DEF RdmaInv, RdmaTypeOK
  <2>3. CallsInv'
    BY <2>1 DEF RdmaInv, CallsInv, CallInv, ResultInv, Done, Current, Target, Object
  <2>4. WiresInv' /\ StoredWhole'
    BY <2>1, SameWires DEF WiresInv
  <2> QED BY <2>2, <2>3, <2>4 DEF RdmaInv
<1> QED BY <1>1, <1>2, <1>3, <1>4, <1>5 DEF Next

THEOREM RdmaInvariant == Spec => []RdmaInv
<1>1. Init => RdmaInv
  BY RdmaInit
<1>2. RdmaInv /\ [Next]_vars => RdmaInv'
  BY RdmaNext
<1> QED BY <1>1, <1>2, PTL DEF Spec

\* No transfer, however late, and no retry after it makes the server store a mix
\* of two calls' data, or a part under another part's number.
THEOREM NothingIsMixed == Spec => []StoredWhole
<1>1. RdmaInv => StoredWhole
  BY DEF RdmaInv
<1> QED BY <1>1, RdmaInvariant, PTL

\* GetObject reports success only for a buffer that holds what the object was.
THEOREM SuccessIsCurrent == Spec => []GotCurrent
<1>1. RdmaInv => GotCurrent
  BY DEF RdmaInv, CallsInv, ResultInv, Done, Current, GotCurrent, Callers
<1> QED BY <1>1, RdmaInvariant, PTL

\* PutObject and UploadPart report success only for data that the server has.
THEOREM SuccessIsStored == Spec => []PutStored
<1>1. RdmaInv => PutStored
  BY DEF RdmaInv, CallsInv, ResultInv, Done, PutStored
<1> QED BY <1>1, RdmaInvariant, PTL

\* A caller that has its buffer back is alone with it: only its own next call
\* changes what is in it.
THEOREM BufferIsReturned == Spec => QuietAfterReturn
<1>1. ASSUME RdmaInv, Next
      PROVE  \A c \in Callers : pc[c] = "idle" /\ buffer'[c] # buffer[c] => pc'[c] = "region"
  <2> SUFFICES ASSUME NEW c \in Callers, pc[c] = "idle", buffer'[c] # buffer[c]
               PROVE  pc'[c] = "region"
    OBVIOUS
  <2> USE <1>1 DEF RdmaInv, RdmaTypeOK
  <2>1. CASE Replace
    BY <2>1 DEF Replace
  <2>2. ASSUME NEW b \in Callers, AnyCall(b) PROVE pc'[c] = "region"
    <3>1. PICK o, d : Call(b, o, d)
      BY <2>2 DEF AnyCall
    <3>2. b = c
      BY <3>1 DEF Call
    <3> QED BY <3>1, <3>2 DEF Call, Goto
  <2>3. ASSUME NEW b \in Callers, Step(b) PROVE FALSE
    <3>1. pc[b] # "idle"
      BY <2>3 DEF Step, Register, Send, NothingSent, Receive, Timeout, Http
    <3>2. buffer'[c] = buffer[c]
      BY <2>3, <3>1 DEF Step, Register, Send, NothingSent, Receive, Timeout, Http
    <3> QED BY <3>2
  <2>4. ASSUME NEW x \in wire, Move(x) \/ Finish(x) \/ Refuse(x) \/ Ignore(x) PROVE FALSE
    <3>1. CASE Finish(x) \/ Refuse(x) \/ Ignore(x)
      BY <3>1 DEF Finish, Refuse, Ignore
    <3>2. CASE Move(x)
      <4>1. x.op = "get" /\ x.who = c /\ reg[x.who] = x.key
        <5>1. x.op = "get" /\ reg[x.who] = x.key
          BY <3>2 DEF Move
        <5>2. PICK i : buffer' = [buffer EXCEPT ![x.who][i] = Source(x)[i]]
          BY <3>2, <5>1 DEF Move
        <5> QED BY <5>1, <5>2
      <4>2. x.who \in Putters
        BY <4>1, TransferFacts DEF WiresInv, WireInv, Callers
      <4> QED BY <4>1, <4>2, RegisteredCall
    <3> QED BY <2>4, <3>1, <3>2
  <2> QED BY <1>1, <2>1, <2>2, <2>3, <2>4 DEF Next
<1>2. RdmaInv /\ [Next]_vars
        => [\A c \in Callers : pc[c] = "idle" /\ buffer'[c] # buffer[c] => pc'[c] = "region"]_vars
  BY <1>1
<1> QED BY <1>2, RdmaInvariant, PTL DEF Spec, QuietAfterReturn

----------------------------------------------------------------------------
(* The rails.                                                               *)

OneDead == Cardinality(dead) = 1 /\ dead # Rails

\* As long as nobody was blamed wrongly the marks are on dead rails only, and an
\* attempt after the first has the one dead rail marked before it.
RailsInv ==
  /\ dead \subseteq Rails
  /\ \A c \in Callers : pc[c] \notin {"token", "await"} => attempt[c] = 0
  /\ OneDead /\ ~misblamed =>
       /\ marked \subseteq dead
       /\ \A c \in Callers :
            /\ pc[c] = "token" /\ attempt[c] > 0 => dead \subseteq marked
            /\ pc[c] = "await" /\ attempt[c] > 1 => rail[c] \notin dead

\* Neither the marks nor an attempt change; only c may move, to where no attempt
\* is under way that was not before.
LEMMA RailsFrame ==
  ASSUME RailsInv, NEW c \in Callers, UNCHANGED <<dead, marked, misblamed>>,
         \A b \in Callers : b # c =>
           pc'[b] = pc[b] /\ attempt'[b] = attempt[b] /\ rail'[b] = rail[b],
         attempt'[c] = 0, pc'[c] # "await"
  PROVE  RailsInv'
BY DEF RailsInv, OneDead

LEMMA RailsInit == Init => RailsInv
BY RdmaAssumption DEF Init, RailsInv, OneDead

\* A failure that is charged to the one dead rail leaves exactly it marked.
LEMMA MarkedRight ==
  ASSUME RailsInv, NEW c \in Callers, ReportTokenFailure(c), UNCHANGED dead,
         OneDead, ~misblamed'
  PROVE  ~misblamed /\ marked' = dead
<1>1. ~misblamed /\ rail[c] \in dead
  BY DEF ReportTokenFailure
<1>2. marked \subseteq dead
  BY <1>1 DEF RailsInv
<1>3. IsFiniteSet(dead)
  BY RdmaAssumption, FS_Subset DEF RailsInv
<1>4. PICK d : dead = {d}
  BY <1>3, FS_Singleton DEF OneDead
<1>5. marked \cup {rail[c]} = dead /\ dead # Rails
  BY <1>1, <1>2, <1>4 DEF OneDead
<1> QED BY <1>1, <1>5 DEF ReportTokenFailure, Marks

\* The end of an attempt.
LEMMA OutcomeMarks ==
  ASSUME RdmaInv, RailsInv, NEW c \in Callers, NEW ret, Outcome(c, ret), UNCHANGED dead
  PROVE  RailsInv'
<1> USE DEF RdmaInv, RdmaTypeOK
<1>1. CASE Leave(c) /\ UNCHANGED <<marked, misblamed>>
           /\ \E label \in {"idle", "http"} : pc' = [pc EXCEPT ![c] = label]
  BY <1>1, RailsFrame DEF Leave
<1>2. CASE ReportTokenFailure(c) /\ FallBack(c)
  <2>1. /\ \A b \in Callers : b # c =>
             pc'[b] = pc[b] /\ attempt'[b] = attempt[b] /\ rail'[b] = rail[b]
        /\ attempt'[c] = 0 /\ pc'[c] = "http"
    BY <1>2 DEF FallBack, Leave, Goto
  <2>2. OneDead' /\ ~misblamed' => ~misblamed /\ marked' = dead /\ OneDead
    BY <1>2, MarkedRight DEF OneDead
  <2> QED BY <2>1, <2>2 DEF RailsInv
<1>3. CASE ReportTokenFailure(c) /\ Goto(c, "token") /\ UNCHANGED <<attempt, rail>>
  <2>1. /\ \A b \in Callers : b # c => pc'[b] = pc[b]
        /\ pc'[c] = "token"
    BY <1>3 DEF Goto
  <2>2. OneDead' /\ ~misblamed' => ~misblamed /\ marked' = dead /\ OneDead
    BY <1>3, MarkedRight DEF OneDead
  <2> QED BY <1>3, <2>1, <2>2 DEF RailsInv
<1> QED BY <1>1, <1>2, <1>3 DEF Outcome, Return, FallBack, Goto

LEMMA RailsNext == RdmaInv /\ RailsInv /\ [Next]_vars => RailsInv'
<1> SUFFICES ASSUME RdmaInv, RailsInv, [Next]_vars PROVE RailsInv'
  OBVIOUS
<1> USE DEF RdmaInv, RdmaTypeOK
<1>1. CASE UNCHANGED <<dead, marked, misblamed, pc, attempt, rail>>
  BY <1>1 DEF RailsInv, OneDead
<1>2. CASE Replace
  BY <1>1, <1>2 DEF Replace, library, callVars
<1>3. ASSUME NEW c \in Callers, AnyCall(c) PROVE RailsInv'
  <2>1. PICK o, d : Call(c, o, d)
    BY <1>3 DEF AnyCall
  <2>2. /\ pc[c] = "idle" /\ pc' = [pc EXCEPT ![c] = "region"]
        /\ UNCHANGED <<dead, marked, misblamed, attempt, rail>>
    BY <2>1 DEF Call, Goto, server, library
  <2>3. attempt[c] = 0
    BY <2>2 DEF RailsInv
  <2> QED BY <2>2, <2>3, RailsFrame
<1>4. ASSUME NEW c \in Callers, Register(c) PROVE RailsInv'
  <2>1. /\ pc[c] = "region" /\ UNCHANGED <<dead, marked, misblamed, attempt, rail>>
        /\ \E label \in {"idle", "http", "token"} : pc' = [pc EXCEPT ![c] = label]
    BY <1>4 DEF Register, Return, Goto, server
  <2>2. attempt[c] = 0
    BY <2>1 DEF RailsInv
  <2> QED BY <2>1, <2>2, RailsFrame
<1>5. ASSUME NEW c \in Callers, NothingSent(c) PROVE RailsInv'
  <2>1. /\ pc' = [pc EXCEPT ![c] = "http"] /\ UNCHANGED <<dead, marked, misblamed>>
        /\ attempt' = [attempt EXCEPT ![c] = 0] /\ rail' = [rail EXCEPT ![c] = NoRail]
    BY <1>5 DEF NothingSent, FallBack, Leave, Goto, server
  <2> QED BY <2>1, RailsFrame
<1>6. ASSUME NEW c \in Callers, Http(c) PROVE RailsInv'
  <2>1. /\ pc[c] = "http" /\ pc' = [pc EXCEPT ![c] = "idle"]
        /\ UNCHANGED <<dead, marked, misblamed, attempt, rail>>
    BY <1>6 DEF Http, Return, Goto, server, library, Stores
  <2>2. attempt[c] = 0
    BY <2>1 DEF RailsInv
  <2> QED BY <2>1, <2>2, RailsFrame
<1>7. ASSUME NEW c \in Callers, Send(c) PROVE RailsInv'
  <2>1. PICK r \in Rails \ marked : rail' = [rail EXCEPT ![c] = r]
    BY <1>7 DEF Send
  <2>2. /\ pc[c] = "token" /\ pc' = [pc EXCEPT ![c] = "await"]
        /\ attempt' = [attempt EXCEPT ![c] = attempt[c] + 1]
        /\ UNCHANGED <<dead, marked, misblamed>>
    BY <1>7 DEF Send, Goto, server, library
  <2>3. /\ attempt'[c] = attempt[c] + 1 /\ rail'[c] = r /\ pc'[c] = "await"
        /\ \A b \in Callers : b # c =>
             pc'[b] = pc[b] /\ attempt'[b] = attempt[b] /\ rail'[b] = rail[b]
    BY <2>1, <2>2
  <2>4. OneDead /\ ~misblamed /\ attempt'[c] > 1 => r \notin dead
    <3> SUFFICES ASSUME OneDead, ~misblamed, attempt'[c] > 1 PROVE r \notin dead
      OBVIOUS
    <3>1. attempt[c] > 0
      BY <2>3
    <3>2. dead \subseteq marked
      BY <2>2, <3>1 DEF RailsInv
    <3> QED BY <2>1, <3>2
  <2> QED BY <2>2, <2>3, <2>4 DEF RailsInv, OneDead
<1>8. ASSUME NEW c \in Callers, Receive(c) \/ Timeout(c) PROVE RailsInv'
  <2>1. UNCHANGED dead
    BY <1>8 DEF Receive, Timeout, server
  <2>2. \E ret : Outcome(c, ret)
    BY <1>8 DEF Receive, Timeout
  <2> QED BY <2>1, <2>2, OutcomeMarks
<1>9. ASSUME NEW x \in wire, Move(x) \/ Finish(x) \/ Refuse(x) \/ Ignore(x) PROVE RailsInv'
  <2>1. UNCHANGED <<dead, marked, misblamed, pc, attempt, rail>>
    BY <1>9 DEF Move, Finish, Refuse, Ignore, server, library, callVars, Stores
  <2> QED BY <1>1, <2>1
<1>10. CASE UNCHANGED vars
  BY <1>1, <1>10 DEF vars, server, library, callVars
<1> QED BY <1>2, <1>3, <1>4, <1>5, <1>6, <1>7, <1>8, <1>9, <1>10 DEF Next, Step

\* With several rails of which one is dead no retry goes over it, whichever caller
\* found out first, as long as rdmaReportTokenFailure was never told of a live one.
THEOREM RetriesAvoidTheDeadRail == Spec => []SecondRailLives
<1>1. RailsInv => SecondRailLives
  BY DEF RailsInv, OneDead, SecondRailLives
<1> QED BY <1>1, RailsInit, RailsNext, RdmaInvariant, PTL DEF Spec
=============================================================================
