-------------------------- MODULE SharedStateProofs --------------------------
(***************************************************************************)
(* What threads share: the chain of credential providers, the cache of     *)
(* regions, and the bucket behind a client whose calls run on any number   *)
(* of threads.                                                             *)
(*                                                                         *)
(* The chain (CredentialChain): fetch_mutex_ keeps every half-made         *)
(* assignment to creds_ to the thread that makes it, and what is signed    *)
(* with is as it was issued, is still valid, or comes from a chain in      *)
(* which every provider failed.                                            *)
(*                                                                         *)
(* The cache (Region) and the configurations (Config) come in by INSTANCE: *)
(* variables of one name there and here are one symbol, and each theorem   *)
(* speaks of the behaviours of its own specification alone.  Of the        *)
(* configurations the documents come first, what is written and what is    *)
(* read of it, and then the calls that send and fetch them.                *)
(***************************************************************************)
EXTENDS CredentialChain, SequenceTheorems, TLAPS

CONSTANTS
  Regions, None, MaxChanges, MaxFaults,                 \* of BucketRegion
  Given, MaxCalls                                       \* of BucketConfig

VARIABLES
  bucket, region_map_, op, region, attempt, reply, result, seen, changes, faults,
  kind, config, given, alive, call, calls

Region == INSTANCE BucketRegion
Config == INSTANCE BucketConfig

----------------------------------------------------------------------------
(* The chain of providers.                                                  *)

\* Any time, and any that a service gives as an expiration: after the epoch.
AnyTime == [secs : Nat, usecs : {0, 1}]
Expirations == [secs : Nat \ {0}, usecs : {0, 1}]

AnyCredentials ==
  [err : BOOLEAN, access_key : Int, secret_key : Int, expiration : AnyTime]

\* The places of a thread inside of the provider it asks, and inside of the
\* chain's Fetch, which is what the mutex is held for.
InProvider == {"fetch", "sent", "store", "answered", "assign"}
InChain == {"chain"} \cup InProvider

ChainTypeOK ==
  /\ now \in Nat \ {0}
  /\ issued \in Seq(Expirations)
  /\ creds \in [Providers -> AnyCredentials]
  /\ chain \in AnyCredentials
  /\ provider_ \in Providers \cup {NoProvider}
  /\ mutex \subseteq Threads
  /\ pc \in [Threads -> {"idle", "lock", "sign"} \cup InChain]
  /\ who \in [Threads -> Providers \cup {NoProvider}]
  /\ rest \in [Threads -> Seq(Providers)]
  /\ got \in [Threads -> AnyCredentials]
  /\ signed \in [Threads -> AnyCredentials]
  /\ checked \in [Threads -> Nat]
  /\ failed \in [Threads -> SUBSET Providers]
  /\ \A t \in Threads : pc[t] \in InProvider => who[t] \in Providers

\* The threads inside of Fetch are those that hold the mutex, and that is one.
LockInv ==
  /\ \A t \in Threads : pc[t] \in InChain <=> t \in mutex
  /\ \A t, u \in mutex : t = u

\* Credentials as they were issued.
Whole(c, keys) ==
  /\ c.secret_key = c.access_key
  /\ c.access_key > 0 =>
       c.access_key <= Len(keys) /\ c.expiration = FromISO8601UTC(keys[c.access_key])

\* Everything that may be read is whole: the chain's creds_ unless a thread is in
\* the middle of assigning it, a provider's unless a thread is in the middle of
\* storing into it.
WholeInv ==
  /\ \A t \in Threads : Whole(got[t], issued) /\ Whole(signed[t], issued)
  /\ (\A t \in Threads : pc[t] # "assign") => Whole(chain, issued)
  /\ \A p \in Providers :
       (\A t \in Threads : pc[t] = "store" => who[t] # p) => Whole(creds[p], issued)

Elements(s) == {s[i] : i \in DOMAIN s}

\* No provider is forgotten: each has failed, is being asked or will be.
CoverInv ==
  \A t \in Threads : pc[t] \in InProvider =>
    Providers \subseteq failed[t] \cup {who[t]} \cup Elements(rest[t])

\* What Fetch has returned.
SignInv ==
  \A t \in Threads : pc[t] = "sign" =>
    /\ got[t].err => failed[t] = Providers
    /\ got[t].access_key # 0 =>
         ~IsSet(got[t].expiration) \/ checked[t] + Margin <= got[t].expiration.secs

ChainInv == ChainTypeOK /\ LockInv /\ WholeInv /\ CoverInv /\ SignInv

----------------------------------------------------------------------------

\* A list is its first element and those of the rest; both are of its kind.
LEMMA HeadTailElements ==
  ASSUME NEW S, NEW s \in Seq(S), s # <<>>
  PROVE  /\ Head(s) \in S
         /\ Tail(s) \in Seq(S)
         /\ Elements(s) = {Head(s)} \cup Elements(Tail(s))
<1>1. Len(s) \in Nat \ {0} /\ DOMAIN s = 1 .. Len(s)
  BY EmptySeq
<1>2. Head(s) = s[1] /\ Head(s) \in S /\ Tail(s) \in Seq(S)
  BY <1>1
<1>3. /\ DOMAIN Tail(s) = 1 .. Len(s) - 1
      /\ \A i \in 1 .. Len(s) - 1 : Tail(s)[i] = s[i + 1]
  BY <1>1, HeadTailProperties
<1>4. ASSUME NEW i \in 1 .. Len(s) PROVE s[i] \in {Head(s)} \cup Elements(Tail(s))
  <2>1. CASE i = 1
    BY <1>2, <2>1
  <2>2. CASE i # 1
    <3>1. i - 1 \in 1 .. Len(s) - 1 /\ Tail(s)[i - 1] = s[i]
      BY <1>1, <1>3, <2>2
    <3> QED BY <1>3, <3>1 DEF Elements
  <2> QED BY <2>1, <2>2
<1>5. ASSUME NEW i \in 1 .. Len(s) - 1 PROVE Tail(s)[i] \in Elements(s)
  <2>1. i + 1 \in 1 .. Len(s) /\ Tail(s)[i] = s[i + 1]
    BY <1>1, <1>3
  <2> QED BY <1>1, <2>1 DEF Elements
<1>6. Head(s) \in Elements(s)
  BY <1>1, <1>2 DEF Elements
<1>7. Elements(s) \subseteq {Head(s)} \cup Elements(Tail(s))
  BY <1>1, <1>4 DEF Elements
<1>8. Elements(Tail(s)) \subseteq Elements(s)
  BY <1>3, <1>5 DEF Elements
<1> QED BY <1>2, <1>6, <1>7, <1>8

\* The chain is a list of its providers, all of them.
LEMMA ChainElements ==
  /\ Elements(providers_) = Providers
  /\ Head(providers_) \in Providers
  /\ Tail(providers_) \in Seq(Providers)
  /\ Providers = {Head(providers_)} \cup Elements(Tail(providers_))
<1>1. Elements(providers_) = Providers
  BY DEF Elements, Providers
<1>2. providers_ \in Seq(Providers) /\ providers_ # <<>>
  BY ChainAssumption
<1> QED BY <1>1, <1>2, HeadTailElements

LEMMA SomeCredentials ==
  /\ NoCreds \in AnyCredentials /\ Error \in AnyCredentials
  /\ NoCreds.access_key = 0 /\ NoCreds.secret_key = 0 /\ ~NoCreds.err
  /\ Error.access_key = 0 /\ Error.secret_key = 0 /\ Error.err
BY DEF NoCreds, Error, Credentials, NoTime, UtcTime, AnyCredentials, AnyTime

\* A step of one thread leaves those of the others alone.
LEMMA OthersUntouched ==
  ASSUME ChainTypeOK, NEW t \in Threads, Request(t) \/ Step(t), NEW u \in Threads, u # t
  PROVE  /\ pc'[u] = pc[u] /\ who'[u] = who[u] /\ rest'[u] = rest[u]
         /\ got'[u] = got[u] /\ signed'[u] = signed[u]
         /\ checked'[u] = checked[u] /\ failed'[u] = failed[u]
<1> USE DEF ChainTypeOK, Goto, Leave, ReturnCreds, Ask, Answer
<1>1. CASE Request(t) \/ Lock(t) \/ FetchSend(t) \/ Assign(t) \/ FetchStored(t)
  BY <1>1 DEF Request, Lock, FetchSend, Assign, FetchStored
<1>2. CASE Cached(t) \/ Refresh(t)
  BY <1>2 DEF Cached, Refresh
<1>3. CASE Accept(t) \/ TryNext(t)
  BY <1>3 DEF Accept, TryNext
<1>4. CASE FetchCached(t) \/ FetchFailed(t)
  BY <1>4 DEF FetchCached, FetchFailed
<1>5. ASSUME NEW life \in Lives, NEW usecs \in {0, 1}, FetchIssued(t, life, usecs)
      PROVE  /\ pc'[u] = pc[u] /\ who'[u] = who[u] /\ rest'[u] = rest[u]
             /\ got'[u] = got[u] /\ signed'[u] = signed[u]
             /\ checked'[u] = checked[u] /\ failed'[u] = failed[u]
  BY <1>5 DEF FetchIssued
<1>6. CASE FetchThrows(t) \/ Sign(t)
  BY <1>6 DEF FetchThrows, Sign
<1> QED BY <1>1, <1>2, <1>3, <1>4, <1>5, <1>6 DEF Step

----------------------------------------------------------------------------

LEMMA ChainTypeInit == Init => ChainTypeOK
<1> SUFFICES ASSUME Init PROVE ChainTypeOK
  OBVIOUS
<1>1. Credentials(FALSE, -1, NoTime) \in AnyCredentials
  BY DEF Credentials, NoTime, UtcTime, AnyCredentials, AnyTime
<1>2. creds \in [Providers -> AnyCredentials]
  BY <1>1, SomeCredentials DEF Init
<1> QED BY <1>2, SomeCredentials DEF Init, ChainTypeOK, InProvider

\* A time that a text gives is one, and is set if it has a fraction.
LEMMA ReadTime ==
  ASSUME NEW e \in Expirations
  PROVE  /\ FromISO8601UTC(e) \in AnyTime
         /\ FromISO8601UTC(e).secs = e.secs + Shift
         /\ e.usecs # 0 => IsSet(FromISO8601UTC(e))
BY ChainAssumption DEF Expirations, AnyTime, FromISO8601UTC, UtcTime, IsSet

\* What a service gives now for credentials that last for a life.
LEMMA ExpirationType ==
  ASSUME ChainTypeOK, NEW life \in Lives, NEW usecs \in {0, 1}
  PROVE  UtcTime(now + life, usecs) \in Expirations
BY ChainAssumption DEF ChainTypeOK, UtcTime, Expirations

\* The chain asks a provider p next, and then those of r.
LEMMA AskType ==
  ASSUME ChainTypeOK, NEW t \in Threads, NEW p \in Providers, NEW r \in Seq(Providers),
         Ask(t, p, r)
  PROVE  /\ provider_' \in Providers
         /\ pc' \in [Threads -> {"idle", "lock", "sign"} \cup InChain]
         /\ who' \in [Threads -> Providers \cup {NoProvider}]
         /\ rest' \in [Threads -> Seq(Providers)]
         /\ pc'[t] = "fetch" /\ who'[t] = p /\ rest'[t] = r
         /\ \A u \in Threads : pc'[u] \in InProvider => who'[u] \in Providers
BY DEF ChainTypeOK, Ask, Goto, InChain, InProvider

\* Fetch returns the credentials c.
LEMMA ReturnType ==
  ASSUME ChainTypeOK, NEW t \in Threads, NEW c \in AnyCredentials, ReturnCreds(t, c)
  PROVE  /\ got' \in [Threads -> AnyCredentials]
         /\ checked' \in [Threads -> Nat]
         /\ mutex' \subseteq Threads /\ t \notin mutex'
         /\ pc' \in [Threads -> {"idle", "lock", "sign"} \cup InChain]
         /\ pc'[t] = "sign" /\ got'[t] = c /\ checked'[t] = now
         /\ \A u \in Threads : pc'[u] \in InProvider => pc[u] \in InProvider
BY DEF ChainTypeOK, ReturnCreds, Goto, InProvider

\* Who is asked when the credentials at hand are not good enough.
LEMMA RefreshAsks ==
  ASSUME ChainTypeOK, NEW t \in Threads, Refresh(t)
  PROVE  \E p \in Providers, r \in Seq(Providers) :
           Ask(t, p, r) /\ Providers \subseteq {p} \cup Elements(r)
<1>1. CASE provider_ # NoProvider
  <2>1. Ask(t, provider_, providers_) /\ provider_ \in Providers
    BY <1>1 DEF Refresh, ChainTypeOK
  <2> QED BY <2>1, ChainAssumption, ChainElements
<1>2. CASE provider_ = NoProvider
  BY <1>2, ChainElements DEF Refresh
<1> QED BY <1>1, <1>2

\* Who is asked after a provider that failed, and what a call returns that has
\* asked the last one.
LEMMA TryNextAsks ==
  ASSUME ChainTypeOK, NEW t \in Threads, TryNext(t)
  PROVE  \/ /\ rest[t] # <<>>
            /\ \E p \in Providers, r \in Seq(Providers) :
                 Ask(t, p, r) /\ Elements(rest[t]) = {p} \cup Elements(r)
            /\ UNCHANGED <<got, checked, mutex>>
         \/ /\ Elements(rest[t]) = {}
            /\ ReturnCreds(t, Error)
            /\ UNCHANGED <<who, rest, provider_>>
<1>1. rest[t] \in Seq(Providers)
  BY DEF ChainTypeOK
<1>2. CASE rest[t] # <<>>
  <2>1. Ask(t, Head(rest[t]), Tail(rest[t])) /\ UNCHANGED <<got, checked, mutex>>
    BY <1>2 DEF TryNext
  <2>2. /\ Head(rest[t]) \in Providers /\ Tail(rest[t]) \in Seq(Providers)
        /\ Elements(rest[t]) = {Head(rest[t])} \cup Elements(Tail(rest[t]))
    BY <1>1, <1>2, HeadTailElements
  <2> QED BY <1>2, <2>1, <2>2
<1>3. CASE rest[t] = <<>>
  <2>1. Elements(rest[t]) = {}
    BY <1>3 DEF Elements
  <2> QED BY <1>3, <2>1 DEF TryNext
<1> QED BY <1>2, <1>3

LEMMA ChainTypeNext == ChainTypeOK /\ [Next]_vars => ChainTypeOK'
<1> SUFFICES ASSUME ChainTypeOK, [Next]_vars PROVE ChainTypeOK'
  OBVIOUS
<1>1. CASE UNCHANGED vars
  BY <1>1 DEF ChainTypeOK, vars, threadVars
<1>2. CASE Tick
  BY <1>2 DEF ChainTypeOK, Tick, threadVars
<1>3. ASSUME NEW t \in Threads, Request(t) \/ Step(t) PROVE ChainTypeOK'
  <2>1. CASE Request(t) \/ Lock(t) \/ FetchSend(t)
    BY <2>1 DEF ChainTypeOK, Request, Lock, FetchSend, Goto, InChain, InProvider
  <2>2. CASE Cached(t)
    <3>1. ReturnCreds(t, chain) /\ chain \in AnyCredentials
      BY <2>2 DEF Cached, ChainTypeOK
    <3> QED BY <2>2, <3>1, ReturnType DEF ChainTypeOK, Cached
  <2>3. CASE Refresh(t)
    <3>1. /\ provider_' \in Providers
          /\ pc' \in [Threads -> {"idle", "lock", "sign"} \cup InChain]
          /\ who' \in [Threads -> Providers \cup {NoProvider}]
          /\ rest' \in [Threads -> Seq(Providers)]
          /\ \A u \in Threads : pc'[u] \in InProvider => who'[u] \in Providers
      BY <2>3, RefreshAsks, AskType
    <3>2. failed' \in [Threads -> SUBSET Providers]
      BY <2>3 DEF ChainTypeOK, Refresh
    <3> QED BY <2>3, <3>1, <3>2 DEF ChainTypeOK, Refresh
  <2>4. CASE Assign(t)
    <3>1. chain' \in AnyCredentials
      BY <2>4 DEF ChainTypeOK, Assign, Torn, AnyCredentials
    <3> QED BY <2>4, <3>1 DEF ChainTypeOK, Assign, Goto, InChain, InProvider
  <2>5. CASE Accept(t)
    <3>1. ReturnCreds(t, got[t]) /\ got[t] \in AnyCredentials /\ chain' = got[t]
      BY <2>5 DEF Accept, ChainTypeOK
    <3> QED BY <2>5, <3>1, ReturnType DEF ChainTypeOK, Accept
  <2>6. CASE TryNext(t)
    <3>1. chain' \in AnyCredentials /\ failed' \in [Threads -> SUBSET Providers]
      BY <2>6 DEF TryNext, ChainTypeOK, InProvider
    <3>2. CASE /\ \E p \in Providers, r \in Seq(Providers) : Ask(t, p, r)
               /\ UNCHANGED <<got, checked, mutex>>
      <4>1. /\ provider_' \in Providers
            /\ pc' \in [Threads -> {"idle", "lock", "sign"} \cup InChain]
            /\ who' \in [Threads -> Providers \cup {NoProvider}]
            /\ rest' \in [Threads -> Seq(Providers)]
            /\ \A u \in Threads : pc'[u] \in InProvider => who'[u] \in Providers
        BY <3>2, AskType
      <4> QED BY <2>6, <3>1, <3>2, <4>1 DEF ChainTypeOK, TryNext
    <3>3. CASE ReturnCreds(t, Error) /\ UNCHANGED <<who, rest, provider_>>
      BY <2>6, <3>1, <3>3, ReturnType, SomeCredentials DEF ChainTypeOK, TryNext
    <3> QED BY <2>6, <3>2, <3>3, TryNextAsks
  <2>7. CASE FetchCached(t)
    <3>1. creds[who[t]] \in AnyCredentials
      BY <2>7 DEF FetchCached, ChainTypeOK, InProvider
    <3> QED BY <2>7, <3>1 DEF ChainTypeOK, FetchCached, Answer, Goto, InChain, InProvider
  <2>8. ASSUME NEW life \in Lives, NEW usecs \in {0, 1}, FetchIssued(t, life, usecs) PROVE ChainTypeOK'
    <3> DEFINE e == UtcTime(now + life, usecs)
               new == Credentials(FALSE, Len(issued) + 1, FromISO8601UTC(e))
    <3>1. e \in Expirations /\ Len(issued) + 1 \in Int
      BY ExpirationType DEF ChainTypeOK
    <3>2. new \in AnyCredentials
      BY <3>1, ReadTime DEF Credentials, AnyCredentials
    <3>3. issued' \in Seq(Expirations)
      BY <2>8, <3>1 DEF FetchIssued, ChainTypeOK
    <3>4. got' = [got EXCEPT ![t] = new] /\ creds' = [creds EXCEPT ![who[t]] = Torn(@, new)]
      BY <2>8 DEF FetchIssued
    <3>5. who[t] \in Providers
      BY <2>8 DEF FetchIssued, ChainTypeOK, InProvider
    <3>6. Torn(creds[who[t]], new) \in AnyCredentials
      BY <3>2, <3>5 DEF Torn, AnyCredentials, ChainTypeOK
    <3> HIDE DEF new
    <3>7. got' \in [Threads -> AnyCredentials] /\ creds' \in [Providers -> AnyCredentials]
      BY <3>2, <3>4, <3>5, <3>6 DEF ChainTypeOK
    <3> QED BY <2>8, <3>3, <3>7 DEF ChainTypeOK, FetchIssued, Goto, InChain, InProvider
  <2>9. CASE FetchStored(t)
    BY <2>9 DEF ChainTypeOK, FetchStored, Goto, InChain, InProvider
  <2>10. CASE FetchFailed(t)
    <3>1. PICK c \in {NoCreds, Error} :
            /\ Answer(t, c)
            /\ creds' = [creds EXCEPT ![who[t]] = c] \/ UNCHANGED creds
      BY <2>10 DEF FetchFailed
    <3>2. c \in AnyCredentials
      BY SomeCredentials
    <3>3. got' \in [Threads -> AnyCredentials] /\ creds' \in [Providers -> AnyCredentials]
      BY <3>1, <3>2 DEF Answer, ChainTypeOK
    <3>4. pc[t] = "sent" /\ pc' = [pc EXCEPT ![t] = "answered"]
      BY <2>10, <3>1 DEF FetchFailed, Answer, Goto
    <3> QED BY <2>10, <3>3, <3>4 DEF ChainTypeOK, FetchFailed, InChain, InProvider
  <2>11. CASE FetchThrows(t) \/ Sign(t)
    <3>1. Leave(t) /\ UNCHANGED <<now, issued, creds, chain, provider_>>
      BY <2>11 DEF FetchThrows, Sign
    <3>2. got' \in [Threads -> AnyCredentials]
      BY <3>1, SomeCredentials DEF ChainTypeOK, Leave
    <3>3. signed' \in [Threads -> AnyCredentials] /\ mutex' \subseteq Threads
      BY <2>11 DEF ChainTypeOK, FetchThrows, Sign
    <3>4. /\ pc' = [pc EXCEPT ![t] = "idle"]
          /\ who' = [who EXCEPT ![t] = NoProvider]
          /\ rest' \in [Threads -> Seq(Providers)]
          /\ checked' \in [Threads -> Nat]
          /\ failed' \in [Threads -> SUBSET Providers]
      BY <3>1 DEF ChainTypeOK, Leave, Goto
    <3>5. /\ pc' \in [Threads -> {"idle", "lock", "sign"} \cup InChain]
          /\ who' \in [Threads -> Providers \cup {NoProvider}]
          /\ \A u \in Threads : pc'[u] \in InProvider => who'[u] \in Providers
      BY <3>4 DEF ChainTypeOK, InProvider
    <3> QED BY <3>1, <3>2, <3>3, <3>4, <3>5 DEF ChainTypeOK
  <2> QED BY <1>3, <2>1, <2>2, <2>3, <2>4, <2>5, <2>6, <2>7, <2>8, <2>9, <2>10, <2>11 DEF Step
<1> QED BY <1>1, <1>2, <1>3 DEF Next

----------------------------------------------------------------------------

\* The mutex is taken on the way into Fetch, which nobody is inside of then, and
\* released on every way out of it, the exception included.
LEMMA MutexMoves ==
  ASSUME ChainTypeOK, NEW t \in Threads, Request(t) \/ Step(t)
  PROVE  \/ mutex = {} /\ mutex' = {t} /\ pc'[t] \in InChain
         \/ mutex' = mutex \ {t} /\ pc'[t] \notin InChain
         \/ mutex' = mutex /\ (pc'[t] \in InChain <=> pc[t] \in InChain)
<1> USE DEF InChain, InProvider
<1>1. CASE Request(t) \/ FetchSend(t) \/ Assign(t) \/ FetchStored(t)
  BY <1>1 DEF ChainTypeOK, Request, FetchSend, Assign, FetchStored, Goto
<1>2. CASE Lock(t)
  BY <1>2 DEF ChainTypeOK, Lock, Free, Goto
<1>3. CASE Cached(t) \/ Accept(t)
  BY <1>3 DEF ChainTypeOK, Cached, Accept, ReturnCreds, Goto
<1>4. CASE Refresh(t)
  BY <1>4, RefreshAsks, AskType DEF Refresh
<1>5. CASE TryNext(t)
  <2>1. CASE (\E p \in Providers, r \in Seq(Providers) : Ask(t, p, r)) /\ UNCHANGED mutex
    BY <1>5, <2>1, AskType DEF TryNext
  <2>2. CASE ReturnCreds(t, Error)
    BY <2>2 DEF ChainTypeOK, ReturnCreds, Goto
  <2> QED BY <1>5, <2>1, <2>2, TryNextAsks
<1>6. CASE FetchCached(t) \/ FetchFailed(t)
  BY <1>6 DEF ChainTypeOK, FetchCached, FetchFailed, Answer, Goto
<1>7. ASSUME NEW life \in Lives, NEW usecs \in {0, 1}, FetchIssued(t, life, usecs)
      PROVE  mutex' = mutex /\ pc'[t] \in InChain /\ pc[t] \in InChain
  BY <1>7 DEF ChainTypeOK, FetchIssued, Goto
<1>8. CASE FetchThrows(t) \/ Sign(t)
  BY <1>8 DEF ChainTypeOK, FetchThrows, Sign, Leave, Goto
<1> QED BY <1>1, <1>2, <1>3, <1>4, <1>5, <1>6, <1>7, <1>8 DEF Step

LEMMA LockNext ==
  ASSUME ChainTypeOK, LockInv, NEW t \in Threads, Request(t) \/ Step(t)
  PROVE  LockInv'
<1>1. \A u \in Threads : u # t => pc'[u] = pc[u]
  BY OthersUntouched
<1>2. mutex \subseteq Threads
  BY DEF ChainTypeOK
<1>3. CASE mutex = {} /\ mutex' = {t} /\ pc'[t] \in InChain
  BY <1>1, <1>3 DEF LockInv
<1>4. CASE mutex' = mutex \ {t} /\ pc'[t] \notin InChain
  BY <1>1, <1>4 DEF LockInv
<1>5. CASE mutex' = mutex /\ (pc'[t] \in InChain <=> pc[t] \in InChain)
  BY <1>1, <1>5 DEF LockInv
<1> QED BY <1>3, <1>4, <1>5, MutexMoves

\* Whoever is inside of Fetch is alone there.
LEMMA OneInChain ==
  ASSUME LockInv, NEW t \in Threads, pc[t] \in InChain, NEW u \in Threads, u # t
  PROVE  pc[u] \notin InChain
BY DEF LockInv

----------------------------------------------------------------------------

\* Keys issued later do not touch those that were.
LEMMA WholeGrows ==
  ASSUME NEW keys \in Seq(Expirations), NEW e \in Expirations, NEW c \in AnyCredentials,
         Whole(c, keys)
  PROVE  Whole(c, Append(keys, e))
<1>1. /\ Len(Append(keys, e)) = Len(keys) + 1 /\ Len(keys) \in Nat
      /\ \A i \in 1 .. Len(keys) : Append(keys, e)[i] = keys[i]
  OBVIOUS
<1>2. c.access_key \in Int
  BY DEF AnyCredentials
<1> QED BY <1>1, <1>2 DEF Whole

LEMMA WholeSome == ASSUME NEW keys PROVE Whole(NoCreds, keys) /\ Whole(Error, keys)
BY SomeCredentials DEF Whole

\* What was issued last is whole.
LEMMA WholeNew ==
  ASSUME NEW keys \in Seq(Expirations), NEW e \in Expirations
  PROVE  Whole(Credentials(FALSE, Len(keys) + 1, FromISO8601UTC(e)), Append(keys, e))
<1>1. Len(Append(keys, e)) = Len(keys) + 1 /\ Append(keys, e)[Len(keys) + 1] = e
  OBVIOUS
<1> QED BY <1>1 DEF Whole, Credentials

\* A step of t keeps everything that may be read whole if what it makes readable
\* is: what t got and signed with, and creds_ where it assigned to them.
LEMMA WholeStep ==
  ASSUME ChainTypeOK, WholeInv, NEW t \in Threads, Request(t) \/ Step(t),
         \A c \in AnyCredentials : Whole(c, issued) => Whole(c, issued'),
         Whole(got'[t], issued'), Whole(signed'[t], issued'),
         pc'[t] = "assign" \/ Whole(chain', issued') \/ (chain' = chain /\ pc[t] # "assign"),
         \A p \in Providers :
           \/ pc'[t] = "store" /\ who'[t] = p
           \/ Whole(creds'[p], issued')
           \/ creds'[p] = creds[p] /\ ~(pc[t] = "store" /\ who[t] = p)
  PROVE  WholeInv'
<1>1. \A u \in Threads : u # t =>
        /\ pc'[u] = pc[u] /\ who'[u] = who[u] /\ got'[u] = got[u] /\ signed'[u] = signed[u]
  BY OthersUntouched
<1>2. \A u \in Threads : Whole(got'[u], issued') /\ Whole(signed'[u], issued')
  BY <1>1 DEF WholeInv, ChainTypeOK
<1>3. ASSUME \A u \in Threads : pc'[u] # "assign" PROVE Whole(chain', issued')
  BY <1>1, <1>3 DEF WholeInv, ChainTypeOK
<1>4. ASSUME NEW p \in Providers, \A u \in Threads : pc'[u] = "store" => who'[u] # p
      PROVE  Whole(creds'[p], issued')
  <2>1. CASE creds'[p] = creds[p] /\ ~(pc[t] = "store" /\ who[t] = p)
    <3>1. \A u \in Threads : pc[u] = "store" => who[u] # p
      BY <1>1, <1>4, <2>1
    <3>2. Whole(creds[p], issued) /\ creds[p] \in AnyCredentials
      BY <3>1 DEF WholeInv, ChainTypeOK
    <3> QED BY <2>1, <3>2
  <2> QED BY <1>4, <2>1
<1> QED BY <1>2, <1>3, <1>4, Zenon DEF WholeInv

\* The steps that issue nothing.  The chain's creds_ and a provider's are copied
\* with the mutex held, when no other thread is in the middle of an assignment.
LEMMA WholeNextQuiet ==
  ASSUME ChainTypeOK, LockInv, WholeInv, NEW t \in Threads, Request(t) \/ Step(t),
         \A life \in Lives, usecs \in {0, 1} : ~FetchIssued(t, life, usecs)
  PROVE  WholeInv'
<1>1. issued' = issued
  BY DEF Step, Request, Lock, Cached, Refresh, Assign, Accept, TryNext, FetchCached,
         FetchSend, FetchStored, FetchFailed, FetchThrows, Sign
<1>2. \A c \in AnyCredentials : Whole(c, issued) => Whole(c, issued')
  BY <1>1
<1>3. Whole(got[t], issued) /\ Whole(signed[t], issued)
  BY DEF WholeInv
<1>4. pc[t] \in InChain => \A u \in Threads : u # t => pc[u] \notin {"assign", "store"}
  BY OneInChain DEF InChain, InProvider
<1>5. pc[t] \in InChain \ {"assign"} => Whole(chain, issued)
  BY <1>4 DEF WholeInv
<1>6. pc[t] \in InProvider \ {"store"} => Whole(creds[who[t]], issued) /\ who[t] \in Providers
  <2> SUFFICES ASSUME pc[t] \in InProvider \ {"store"}
               PROVE  Whole(creds[who[t]], issued) /\ who[t] \in Providers
    OBVIOUS
  <2>1. who[t] \in Providers
    BY DEF ChainTypeOK
  <2>2. \A u \in Threads : pc[u] # "store"
    BY <1>4 DEF InChain
  <2> QED BY <2>1, <2>2 DEF WholeInv
<1>7. CASE /\ UNCHANGED <<got, signed, chain, creds>>
           /\ pc[t] \notin {"assign", "store"}
  BY <1>1, <1>2, <1>3, <1>7, WholeStep
<1>8. CASE Request(t) \/ Lock(t) \/ FetchSend(t) \/ Refresh(t)
  BY <1>7, <1>8 DEF Request, Lock, FetchSend, Refresh
<1>9. CASE Cached(t)
  <2>1. /\ pc[t] = "chain" /\ got'[t] = chain
        /\ UNCHANGED <<signed, chain, creds>>
    BY <1>9 DEF Cached, ReturnCreds, ChainTypeOK
  <2>2. Whole(got'[t], issued')
    BY <1>1, <1>5, <2>1 DEF InChain
  <2> QED BY <1>1, <1>2, <1>3, <2>1, <2>2, WholeStep
<1>10. CASE Assign(t)
  <2>1. /\ pc[t] = "answered" /\ pc'[t] = "assign" /\ UNCHANGED <<got, signed, creds>>
    BY <1>10 DEF Assign, Goto, ChainTypeOK
  <2> QED BY <1>1, <1>2, <1>3, <2>1, WholeStep
<1>11. CASE Accept(t) \/ TryNext(t)
  <2>1. pc[t] = "assign" /\ chain' = got[t] /\ UNCHANGED <<signed, creds>>
    BY <1>11 DEF Accept, TryNext
  <2>2. got'[t] \in {got[t], Error}
    <3>1. CASE Accept(t)
      BY <3>1 DEF Accept, ReturnCreds, ChainTypeOK
    <3>2. CASE TryNext(t)
      BY <3>2, TryNextAsks DEF ReturnCreds, ChainTypeOK
    <3> QED BY <1>11, <3>1, <3>2
  <2>3. Whole(chain', issued') /\ Whole(got'[t], issued')
    BY <1>1, <1>3, <2>1, <2>2, WholeSome
  <2> QED BY <1>1, <1>2, <1>3, <2>1, <2>3, WholeStep
<1>12. CASE FetchCached(t)
  <2>1. /\ pc[t] = "fetch" /\ got'[t] = creds[who[t]]
        /\ UNCHANGED <<signed, chain, creds>>
    BY <1>12 DEF FetchCached, Answer, ChainTypeOK
  <2>2. Whole(got'[t], issued')
    BY <1>1, <1>6, <2>1 DEF InProvider
  <2> QED BY <1>1, <1>2, <1>3, <2>1, <2>2, WholeStep
<1>13. CASE FetchStored(t)
  <2>1. /\ pc[t] = "store" /\ creds' = [creds EXCEPT ![who[t]] = got[t]]
        /\ UNCHANGED <<got, signed, chain>>
    BY <1>13 DEF FetchStored
  <2>2. \A p \in Providers : creds'[p] = IF p = who[t] THEN got[t] ELSE creds[p]
    BY <2>1 DEF ChainTypeOK
  <2> QED BY <1>1, <1>2, <1>3, <2>1, <2>2, WholeStep
<1>14. CASE FetchFailed(t)
  <2>1. PICK c \in {NoCreds, Error} :
          /\ Answer(t, c)
          /\ creds' = [creds EXCEPT ![who[t]] = c] \/ UNCHANGED creds
    BY <1>14 DEF FetchFailed
  <2>2. pc[t] = "sent" /\ got'[t] = c /\ UNCHANGED <<signed, chain>>
    BY <1>14, <2>1 DEF FetchFailed, Answer, ChainTypeOK
  <2>3. Whole(c, issued')
    BY WholeSome
  <2>4. \A p \in Providers : creds'[p] \in {c, creds[p]}
    BY <2>1 DEF ChainTypeOK
  <2>5. Whole(got'[t], issued') /\ Whole(signed'[t], issued')
    BY <1>1, <1>3, <2>2, <2>3
  <2>6. \A p \in Providers :
          \/ Whole(creds'[p], issued')
          \/ creds'[p] = creds[p] /\ ~(pc[t] = "store" /\ who[t] = p)
    BY <2>2, <2>3, <2>4
  <2> QED BY <1>2, <2>2, <2>5, <2>6, WholeStep
<1>15. CASE FetchThrows(t) \/ Sign(t)
  <2>1. /\ pc[t] \in {"sent", "sign"} /\ got'[t] = NoCreds
        /\ signed'[t] \in {signed[t], got[t]} /\ UNCHANGED <<chain, creds>>
    BY <1>15 DEF FetchThrows, Sign, Leave, ChainTypeOK
  <2>2. Whole(got'[t], issued') /\ Whole(signed'[t], issued')
    BY <1>1, <1>3, <2>1, WholeSome
  <2> QED BY <1>2, <2>1, <2>2, WholeStep
<1> QED BY <1>8, <1>9, <1>10, <1>11, <1>12, <1>13, <1>14, <1>15 DEF Step

\* The one that issues new credentials, and has stored only half of them.
LEMMA WholeNextIssued ==
  ASSUME ChainTypeOK, WholeInv, NEW t \in Threads, NEW life \in Lives, NEW usecs \in {0, 1}, FetchIssued(t, life, usecs)
  PROVE  WholeInv'
<1> DEFINE e == UtcTime(now + life, usecs)
           new == Credentials(FALSE, Len(issued) + 1, FromISO8601UTC(e))
<1>1. issued \in Seq(Expirations) /\ e \in Expirations
  BY ExpirationType DEF ChainTypeOK
<1>2. /\ issued' = Append(issued, e)
      /\ got' = [got EXCEPT ![t] = new]
      /\ creds' = [creds EXCEPT ![who[t]] = Torn(@, new)]
      /\ pc[t] = "sent" /\ pc'[t] = "store"
      /\ UNCHANGED <<chain, who, signed>>
  BY DEF FetchIssued, Goto, ChainTypeOK
<1>3. Whole(new, issued')
  BY <1>1, <1>2, WholeNew
<1> HIDE DEF new
<1>4. \A c \in AnyCredentials : Whole(c, issued) => Whole(c, issued')
  BY <1>1, <1>2, WholeGrows
<1>5. got'[t] = new /\ \A p \in Providers : p # who[t] => creds'[p] = creds[p]
  BY <1>2 DEF ChainTypeOK
<1>6. Whole(got'[t], issued') /\ Whole(signed'[t], issued')
  BY <1>2, <1>3, <1>4, <1>5 DEF WholeInv, ChainTypeOK
<1>7. \A p \in Providers :
        \/ pc'[t] = "store" /\ who'[t] = p
        \/ creds'[p] = creds[p] /\ ~(pc[t] = "store" /\ who[t] = p)
  BY <1>2, <1>5
<1>8. Request(t) \/ Step(t)
  BY DEF Step
<1>9. chain' = chain /\ pc[t] # "assign"
  BY <1>2
<1> QED BY <1>4, <1>6, <1>7, <1>8, <1>9, WholeStep

----------------------------------------------------------------------------

\* What a step of t does to the loop over the providers: it is somewhere else, or
\* begins, goes on with the next one after this one failed, or stays where it is.
LEMMA CoverNext ==
  ASSUME ChainTypeOK, CoverInv, NEW t \in Threads, Request(t) \/ Step(t)
  PROVE  CoverInv'
<1>1. \A u \in Threads : u # t =>
        pc'[u] = pc[u] /\ who'[u] = who[u] /\ rest'[u] = rest[u] /\ failed'[u] = failed[u]
  BY OthersUntouched
<1>2. SUFFICES pc'[t] \in InProvider =>
                 Providers \subseteq failed'[t] \cup {who'[t]} \cup Elements(rest'[t])
  BY <1>1 DEF CoverInv
<1>3. CASE pc'[t] \notin InProvider
  BY <1>3
<1>4. CASE pc[t] \in InProvider /\ UNCHANGED <<who, rest, failed>>
  BY <1>4 DEF CoverInv
<1>5. CASE Request(t) \/ Lock(t) \/ Cached(t) \/ FetchThrows(t) \/ Sign(t)
  BY <1>3, <1>5 DEF Request, Lock, Cached, FetchThrows, Sign, ReturnCreds, Leave, Goto,
                    ChainTypeOK, InProvider
<1>6. CASE Assign(t) \/ FetchCached(t) \/ FetchSend(t) \/ FetchStored(t) \/ FetchFailed(t)
  BY <1>4, <1>6 DEF Assign, FetchCached, FetchSend, FetchStored, FetchFailed, InProvider
<1>7. ASSUME NEW life \in Lives, NEW usecs \in {0, 1}, FetchIssued(t, life, usecs)
      PROVE  pc[t] \in InProvider /\ UNCHANGED <<who, rest, failed>>
  BY <1>7 DEF FetchIssued, InProvider
<1>8. CASE Accept(t)
  BY <1>3, <1>8 DEF Accept, ReturnCreds, Goto, ChainTypeOK, InProvider
<1>9. CASE Refresh(t)
  <2>1. PICK p \in Providers, r \in Seq(Providers) :
          Ask(t, p, r) /\ Providers \subseteq {p} \cup Elements(r)
    BY <1>9, RefreshAsks
  <2>2. who'[t] = p /\ rest'[t] = r
    BY <2>1, AskType
  <2> QED BY <2>1, <2>2
<1>10. CASE TryNext(t)
  <2>1. pc[t] \in InProvider /\ failed'[t] = failed[t] \cup {who[t]}
    BY <1>10 DEF TryNext, InProvider, ChainTypeOK
  <2>2. CASE ReturnCreds(t, Error)
    BY <1>3, <2>2 DEF ReturnCreds, Goto, ChainTypeOK, InProvider
  <2>3. CASE \E p \in Providers, r \in Seq(Providers) :
               Ask(t, p, r) /\ Elements(rest[t]) = {p} \cup Elements(r)
    <3>1. PICK p \in Providers, r \in Seq(Providers) :
            Ask(t, p, r) /\ Elements(rest[t]) = {p} \cup Elements(r)
      BY <2>3
    <3>2. who'[t] = p /\ rest'[t] = r
      BY <3>1, AskType
    <3>3. Providers \subseteq failed[t] \cup {who[t]} \cup {p} \cup Elements(r)
      BY <2>1, <3>1 DEF CoverInv
    <3> QED BY <2>1, <3>2, <3>3
  <2> QED BY <1>10, <2>2, <2>3, TryNextAsks
<1> QED BY <1>4, <1>5, <1>6, <1>7, <1>8, <1>9, <1>10 DEF Step

\* Usable credentials are no error, and valid for the margin at least.
LEMMA UsableLasts ==
  ASSUME NEW c \in AnyCredentials, Usable(c), now \in Nat
  PROVE  ~c.err /\ (~IsSet(c.expiration) \/ now + Margin <= c.expiration.secs)
<1>1. c.expiration.secs \in Nat /\ Margin \in Nat
  BY ChainAssumption DEF AnyCredentials, AnyTime
<1> QED BY <1>1 DEF Usable, expired

\* Fetch returns what it has found usable just now, or has asked everyone.
LEMMA SignNext ==
  ASSUME ChainTypeOK, CoverInv, SignInv, NEW t \in Threads, Request(t) \/ Step(t)
  PROVE  SignInv'
<1>1. \A u \in Threads : u # t =>
        /\ pc'[u] = pc[u] /\ got'[u] = got[u]
        /\ checked'[u] = checked[u] /\ failed'[u] = failed[u]
  BY OthersUntouched
<1>2. SUFFICES pc'[t] = "sign" =>
                 /\ got'[t].err => failed'[t] = Providers
                 /\ got'[t].access_key # 0 =>
                      \/ ~IsSet(got'[t].expiration)
                      \/ checked'[t] + Margin <= got'[t].expiration.secs
  BY <1>1 DEF SignInv
<1>3. CASE pc'[t] # "sign"
  BY <1>3
<1>4. ASSUME NEW c \in AnyCredentials, Usable(c), ReturnCreds(t, c)
      PROVE  /\ ~got'[t].err
             /\ \/ ~IsSet(got'[t].expiration)
                \/ checked'[t] + Margin <= got'[t].expiration.secs
  <2>1. got'[t] = c /\ checked'[t] = now /\ now \in Nat
    BY <1>4, ReturnType DEF ChainTypeOK
  <2>2. ~c.err /\ (~IsSet(c.expiration) \/ now + Margin <= c.expiration.secs)
    BY <1>4, <2>1, UsableLasts
  <2> QED BY <2>1, <2>2
<1>5. CASE Cached(t) \/ Accept(t)
  <2>1. \E c \in {chain, got[t]} : Usable(c) /\ ReturnCreds(t, c)
    BY <1>5 DEF Cached, Accept
  <2>2. chain \in AnyCredentials /\ got[t] \in AnyCredentials
    BY DEF ChainTypeOK
  <2> QED BY <1>4, <2>1, <2>2
<1>6. CASE TryNext(t)
  <2>1. CASE \E p \in Providers, r \in Seq(Providers) : Ask(t, p, r)
    <3>1. pc'[t] = "fetch"
      BY <2>1, AskType
    <3> QED BY <3>1
  <2>2. CASE ReturnCreds(t, Error) /\ Elements(rest[t]) = {}
    <3>1. got'[t] = Error
      BY <2>2, ReturnType, SomeCredentials
    <3>2. failed'[t] = failed[t] \cup {who[t]} /\ pc[t] \in InProvider
      BY <1>6 DEF TryNext, ChainTypeOK, InProvider
    <3>3. Providers \subseteq failed'[t] /\ failed[t] \subseteq Providers /\ who[t] \in Providers
      BY <2>2, <3>2 DEF CoverInv, ChainTypeOK
    <3> QED BY <3>1, <3>2, <3>3, SomeCredentials
  <2> QED BY <1>6, <2>1, <2>2, TryNextAsks
<1>7. CASE Request(t) \/ Lock(t) \/ Assign(t) \/ FetchSend(t) \/ FetchStored(t)
  BY <1>3, <1>7 DEF Request, Lock, Assign, FetchSend, FetchStored, Goto, ChainTypeOK
<1>8. CASE FetchCached(t) \/ FetchFailed(t) \/ FetchThrows(t) \/ Sign(t)
  BY <1>3, <1>8 DEF FetchCached, FetchFailed, FetchThrows, Sign, Leave, Answer, Goto,
                    ChainTypeOK
<1>9. ASSUME NEW life \in Lives, NEW usecs \in {0, 1}, FetchIssued(t, life, usecs) PROVE pc'[t] = "store"
  BY <1>9 DEF FetchIssued, Goto, ChainTypeOK
<1>10. CASE Refresh(t)
  <2>1. pc'[t] = "fetch"
    BY <1>10, RefreshAsks, AskType
  <2> QED BY <2>1
<1> QED BY <1>5, <1>6, <1>7, <1>8, <1>9, <1>10 DEF Step

----------------------------------------------------------------------------

LEMMA ChainInit == Init => ChainInv
<1> SUFFICES ASSUME Init PROVE ChainInv
  OBVIOUS
<1>1. ChainTypeOK
  BY ChainTypeInit
<1>2. \A t \in Threads : pc[t] = "idle"
  BY DEF Init
<1>3. LockInv /\ CoverInv /\ SignInv
  BY <1>2 DEF Init, LockInv, CoverInv, SignInv, InChain, InProvider
<1>4. WholeInv
  <2>1. \A p \in Providers : creds[p] \in {NoCreds, Error, Credentials(FALSE, -1, NoTime)}
    BY DEF Init
  <2>2. Whole(Credentials(FALSE, -1, NoTime), issued)
    BY DEF Whole, Credentials
  <2>3. \A p \in Providers : Whole(creds[p], issued)
    BY <2>1, <2>2, WholeSome
  <2>4. Whole(NoCreds, issued)
    BY WholeSome
  <2>5. /\ \A t \in Threads : got[t] = NoCreds /\ signed[t] = NoCreds
        /\ chain = NoCreds
    BY DEF Init
  <2> QED BY <2>3, <2>4, <2>5 DEF WholeInv
<1> QED BY <1>1, <1>3, <1>4 DEF ChainInv

LEMMA ChainNext == ChainInv /\ [Next]_vars => ChainInv'
<1> SUFFICES ASSUME ChainInv, [Next]_vars PROVE ChainInv'
  OBVIOUS
<1>1. ChainTypeOK /\ ChainTypeOK'
  BY ChainTypeNext DEF ChainInv
<1>2. CASE UNCHANGED <<issued, creds, chain, provider_, mutex, threadVars>>
  BY <1>1, <1>2 DEF ChainInv, threadVars, LockInv, WholeInv, CoverInv, SignInv
<1>3. ASSUME NEW t \in Threads, Request(t) \/ Step(t) PROVE ChainInv'
  <2>1. LockInv'
    BY <1>1, <1>3, LockNext DEF ChainInv
  <2>2. WholeInv'
    <3>1. CASE \E life \in Lives, usecs \in {0, 1} : FetchIssued(t, life, usecs)
      BY <1>1, <3>1, WholeNextIssued DEF ChainInv
    <3>2. CASE \A life \in Lives, usecs \in {0, 1} : ~FetchIssued(t, life, usecs)
      BY <1>1, <1>3, <3>2, WholeNextQuiet DEF ChainInv
    <3> QED BY <3>1, <3>2
  <2>3. CoverInv' /\ SignInv'
    BY <1>1, <1>3, CoverNext, SignNext DEF ChainInv
  <2> QED BY <1>1, <2>1, <2>2, <2>3 DEF ChainInv
<1>4. CASE Tick
  BY <1>2, <1>4 DEF Tick
<1>5. CASE UNCHANGED vars
  BY <1>2, <1>5 DEF vars
<1> QED BY <1>3, <1>4, <1>5 DEF Next

LEMMA ChainInvariant == Spec => []ChainInv
BY ChainInit, ChainNext, PTL DEF Spec

\* However many threads sign at the same time, and whenever they are interrupted
\* between the two halves of an assignment to creds_, a request is signed with the
\* access key and the secret key of one issue (fetch_mutex_ in
\* ChainedProvider::Fetch).
THEOREM KeysBelongTogether == Spec => []SignedAsIssued
<1>1. ChainInv => SignedAsIssued
  BY DEF ChainInv, WholeInv, Whole, SignedAsIssued
<1> QED BY <1>1, ChainInvariant, PTL

\* The margin of expired() covers the way from Fetch to the signature: a request
\* that gets there within it is signed no later than Shift after its credentials
\* expired, whatever texts services send, unless those said so in whole seconds
\* (expired, UtcTime::operator bool, FromISO8601UTC).
THEOREM MarginSuffices == Spec => []FreshWhenSigned
<1>1. ChainInv => FreshWhenSigned
  <2> SUFFICES ASSUME ChainInv, NEW t \in Threads,
                      pc[t] = "sign", got[t].access_key > 0, now - checked[t] <= Margin,
                      issued[got[t].access_key].usecs # 0
               PROVE  now <= issued[got[t].access_key].secs + Shift
    BY DEF FreshWhenSigned
  <2> DEFINE e == issued[got[t].access_key]
  <2>1. got[t].access_key \in 1 .. Len(issued) /\ issued \in Seq(Expirations)
    BY DEF ChainInv, WholeInv, Whole, ChainTypeOK, AnyCredentials
  <2>2. e \in Expirations
    BY <2>1
  <2>3. got[t].expiration = FromISO8601UTC(e)
    BY DEF ChainInv, WholeInv, Whole
  <2>4. IsSet(got[t].expiration) /\ got[t].expiration.secs = e.secs + Shift
    BY <2>2, <2>3, ReadTime
  <2>5. checked[t] + Margin <= e.secs + Shift
    <3>1. ~IsSet(got[t].expiration) \/ checked[t] + Margin <= got[t].expiration.secs
      BY <2>1 DEF ChainInv, SignInv
    <3> QED BY <2>4, <3>1
  <2>6. /\ now \in Nat /\ checked[t] \in Nat /\ Margin \in Nat
        /\ e.secs \in Nat /\ Shift \in Nat
    BY <2>2, ChainAssumption DEF ChainInv, ChainTypeOK, Expirations
  <2> HIDE DEF e
  <2>7. now <= e.secs + Shift
    BY <2>5, <2>6
  <2> QED BY <2>7 DEF e
<1> QED BY <1>1, ChainInvariant, PTL

\* ChainedProvider::Fetch gives up only when it has asked every provider of the
\* chain and each has failed, whichever one answered last time.
THEOREM EveryProviderWasAsked == Spec => []FailsOnlyIfAllFailed
<1>1. ChainInv => FailsOnlyIfAllFailed
  BY DEF ChainInv, SignInv, FailsOnlyIfAllFailed
<1> QED BY <1>1, ChainInvariant, PTL

----------------------------------------------------------------------------
(* The cache of regions: what BucketExists answers was true during the     *)
(* call, however stale the entry it found in the cache.                     *)

Bucket == Regions \cup {None}

\* What the proof needs to know of the functions over threads.
CallersOK ==
  /\ pc \in [Threads -> {"idle", "lookup", "location", "store", "request", "handle",
                         "erase", "error"}]
  /\ DOMAIN op = Threads /\ DOMAIN reply = Threads
  /\ DOMAIN result = Threads /\ DOMAIN seen = Threads
  /\ DOMAIN region = Threads /\ DOMAIN attempt = Threads

\* A call sees what the bucket is; an answer that says the bucket is there, or
\* that it is not, was given while it was so; and that is what is returned.
AnswerInv(t) ==
  /\ pc[t] # "idle" => bucket \in seen[t]
  /\ op[t] = "exists" /\ pc[t] \in {"handle", "erase", "error"} =>
       /\ reply[t] = "ok" => \E r \in seen[t] : r # None
       /\ reply[t] = "NoSuchBucket" => None \in seen[t]
  /\ op[t] = "exists" /\ pc[t] = "idle" =>
       /\ result[t] = "true" => \E r \in seen[t] : r # None
       /\ result[t] = "false" => None \in seen[t]

RegionInv == CallersOK /\ \A t \in Threads : AnswerInv(t)

LEMMA RegionInit == Region!Init => RegionInv
BY DEF Region!Init, RegionInv, CallersOK, AnswerInv

\* What a step of one thread leaves of the others.
LEMMA CallersUntouched ==
  ASSUME CallersOK, NEW t \in Threads, Region!AnyCall(t) \/ Region!Step(t) \/ Region!Fault(t)
  PROVE  /\ CallersOK'
         /\ \A u \in Threads \ {t} :
              /\ pc'[u] = pc[u] /\ op'[u] = op[u] /\ reply'[u] = reply[u]
              /\ result'[u] = result[u] /\ seen[u] \subseteq seen'[u]
              /\ bucket' = bucket \/ bucket' \in seen'[u]
<1> USE DEF CallersOK, Region!Goto, Region!Return
<1>1. CASE Region!AnyCall(t)
  BY <1>1 DEF Region!AnyCall, Region!Call
<1>2. CASE Region!Lookup(t) \/ Region!Location(t) \/ Region!Store(t)
  BY <1>2 DEF Region!Lookup, Region!Location, Region!Store
<1>3. CASE Region!Perform(t)
  <2>1. UNCHANGED <<bucket, seen>> \/ \E b : Region!Becomes(b)
    BY <1>3 DEF Region!Perform
  <2>2. /\ DOMAIN seen' = Threads
        /\ \A u \in Threads : /\ seen[u] \subseteq seen'[u]
                              /\ bucket' = bucket \/ bucket' \in seen'[u]
    BY <2>1 DEF Region!Becomes
  <2> QED BY <1>3, <2>2 DEF Region!Perform
<1>4. CASE Region!Succeeded(t) \/ Region!Failed(t)
  BY <1>4 DEF Region!Succeeded, Region!Failed
<1>5. CASE Region!Erase(t) \/ Region!Error(t) \/ Region!Fault(t)
  BY <1>5 DEF Region!Erase, Region!Error, Region!Fault
<1> QED BY <1>1, <1>2, <1>3, <1>4, <1>5 DEF Region!Step

\* A step keeps what the thread itself may rely on.
LEMMA OwnAnswer ==
  ASSUME CallersOK, NEW t \in Threads, AnswerInv(t),
         Region!AnyCall(t) \/ Region!Step(t) \/ Region!Fault(t)
  PROVE  AnswerInv(t)'
<1> USE DEF CallersOK, Region!Goto, Region!Return, AnswerInv
<1>1. CASE Region!AnyCall(t)
  BY <1>1 DEF Region!AnyCall, Region!Call
<1>2. CASE Region!Lookup(t)
  BY <1>2 DEF Region!Lookup
<1>3. CASE Region!Location(t)
  BY <1>3 DEF Region!Location
<1>4. CASE Region!Store(t)
  BY <1>4 DEF Region!Store
<1>5. CASE Region!Perform(t)
  <2>1. /\ pc[t] = "request" /\ pc' = [pc EXCEPT ![t] = "handle"] /\ UNCHANGED <<op, result>>
        /\ reply' = [reply EXCEPT ![t] = Region!Answer(op[t], region[t])]
    BY <1>5 DEF Region!Perform
  <2>2. bucket' \in seen'[t]
    <3>1. (bucket \in seen[t] /\ UNCHANGED <<bucket, seen>>) \/ \E b : Region!Becomes(b)
      BY <1>5, <2>1 DEF Region!Perform
    <3> QED BY <3>1 DEF Region!Becomes
  <2>3. op[t] = "exists" =>
          /\ UNCHANGED <<bucket, seen>>
          /\ Region!Answer(op[t], region[t]) = "ok" => bucket # None
          /\ Region!Answer(op[t], region[t]) # "NoSuchBucket"
    <3> DEFINE a == Region!Answer(op[t], region[t])
    <3>1. op[t] = "exists" => a \in {"404", "ok", "redirect"} /\ (a = "ok" => bucket # None)
      BY DEF Region!Answer
    <3>2. IF a = "ok" /\ op[t] = "make" THEN Region!Becomes(region[t])
          ELSE IF a = "ok" /\ op[t] = "remove" THEN Region!Becomes(None)
          ELSE UNCHANGED <<bucket, seen>>
      BY <1>5 DEF Region!Perform
    <3> HIDE DEF a
    <3>3. op[t] = "exists" => UNCHANGED <<bucket, seen>>
      BY <3>2
    <3> QED BY <3>1, <3>3 DEF a
  <2> QED BY <2>1, <2>2, <2>3
<1>6. CASE Region!Succeeded(t)
  BY <1>6 DEF Region!Succeeded
<1>7. CASE Region!Failed(t)
  BY <1>7 DEF Region!Failed
<1>8. CASE Region!Erase(t)
  BY <1>8 DEF Region!Erase
<1>9. CASE Region!Error(t)
  BY <1>9 DEF Region!Error, Region!NextAfterError
<1>10. CASE Region!Fault(t)
  BY <1>10 DEF Region!Fault
<1> QED BY <1>1, <1>2, <1>3, <1>4, <1>5, <1>6, <1>7, <1>8, <1>9, <1>10 DEF Region!Step

LEMMA RegionNext == RegionInv /\ [Region!Next]_Region!vars => RegionInv'
<1> SUFFICES ASSUME RegionInv, [Region!Next]_Region!vars PROVE RegionInv'
  OBVIOUS
<1>1. ASSUME NEW t \in Threads, Region!AnyCall(t) \/ Region!Step(t) \/ Region!Fault(t)
      PROVE  RegionInv'
  <2>1. AnswerInv(t)' /\ CallersOK'
    BY <1>1, OwnAnswer, CallersUntouched DEF RegionInv
  <2>2. ASSUME NEW u \in Threads \ {t} PROVE AnswerInv(u)'
    <3>1. /\ pc'[u] = pc[u] /\ op'[u] = op[u] /\ reply'[u] = reply[u]
          /\ result'[u] = result[u] /\ seen[u] \subseteq seen'[u]
          /\ bucket' = bucket \/ bucket' \in seen'[u]
      BY <1>1, <2>2, CallersUntouched DEF RegionInv
    <3>2. AnswerInv(u)
      BY <2>2 DEF RegionInv
    <3> QED BY <3>1, <3>2 DEF AnswerInv
  <2> QED BY <2>1, <2>2 DEF RegionInv
<1>2. ASSUME NEW b \in Bucket, Region!OtherClient(b)
      PROVE  RegionInv'
  <2>1. /\ UNCHANGED <<pc, op, region, attempt, reply, result>>
        /\ bucket' = b /\ seen' = [t \in Threads |-> seen[t] \cup {b}]
    BY <1>2 DEF Region!OtherClient, Region!Becomes
  <2> QED BY <2>1 DEF RegionInv, CallersOK, AnswerInv
<1>3. CASE UNCHANGED Region!vars
  BY <1>3 DEF RegionInv, CallersOK, AnswerInv, Region!vars, Region!threadVars
<1> QED BY <1>1, <1>2, <1>3 DEF Region!Next, Bucket

\* BucketExists never says of a bucket that it is there, or that it is not, unless
\* it was so at some moment of the call, whatever other threads and other clients
\* did and whatever the cache held.
THEOREM ExistsTellsTheTruth == Region!Spec => []Region!ExistsIsTrue
<1>1. RegionInv => Region!ExistsIsTrue
  BY DEF RegionInv, AnswerInv, Region!ExistsIsTrue
<1> QED BY <1>1, RegionInit, RegionNext, PTL DEF Region!Spec

----------------------------------------------------------------------------
(* The configurations: no call that changes one takes a refusal, or an      *)
(* answer that never came, for success.                                     *)

\* A call that sets or deletes, and does not say so of every error.
Changes(c) == c.verb = "PUT" \/ (c.verb = "DELETE" /\ kind # "encryption")

\* What such a call takes for success: no refusal, and no silence.
Modest(c) == Changes(c) => c.forgiven \cap {"AccessDenied", "none"} = {}

ConfigTypes ==
  /\ kind \in Config!Kinds
  /\ DOMAIN pc = Threads /\ DOMAIN call = Threads /\ DOMAIN reply = Threads
  /\ DOMAIN result = Threads /\ DOMAIN seen = Threads

\* An answer that such a call may take for success was given after the server had
\* done what it asks, and the call may have returned by now.
DoneInv(t) ==
  /\ Modest(call[t])
  /\ pc[t] = "reply" /\ Changes(call[t])
     /\ (reply[t].code = "ok" \/ reply[t].code \in call[t].forgiven)
       => call[t].x \in seen[t]
  /\ result[t].status = "ok" /\ Changes(call[t]) => call[t].x \in seen[t]

ConfigInv == ConfigTypes /\ \A t \in Threads : DoneInv(t)

\* No call but DeleteBucketEncryption and the reading ones forgives a refusal.
LEMMA FunctionsModest ==
  ASSUME kind \in Config!Kinds, NEW f \in Config!Functions
  PROVE  Modest(f)
<1> DEFINE quiet(r) == r.verb \in {"GET", "HEAD"} \/ r.forgiven \cap {"AccessDenied", "none"} = {}
<1>1. \A k, valid : quiet(Config!Set(k, valid))
  BY DEF Config!Set, Config!Row
<1>2. \A k : quiet(Config!ObjectWriteArgs(k))
  BY DEF Config!ObjectWriteArgs
<1>3. /\ quiet(Config!Get) /\ quiet(Config!Delete) /\ quiet(Config!StatObject)
      /\ quiet(Config!GetBucketLifecycle) /\ quiet(Config!DeleteBucketReplication)
      /\ quiet(Config!DeleteBucketNotification)
      /\ quiet(Config!EnableObjectLegalHold) /\ quiet(Config!DisableObjectLegalHold)
      /\ quiet(Config!IsObjectLegalHoldEnabled) /\ quiet(Config!GetObjectRetention)
  BY DEF Config!Get, Config!Delete, Config!StatObject, Config!GetBucketLifecycle,
         Config!DeleteBucketReplication, Config!DeleteBucketNotification,
         Config!EnableObjectLegalHold, Config!DisableObjectLegalHold,
         Config!IsObjectLegalHoldEnabled, Config!GetObjectRetention, Config!Without, Config!Row
<1>4. quiet(f) => Modest(f)
  BY DEF Modest, Changes
<1>5. kind = "encryption" => Modest(Config!DeleteBucketEncryption)
  BY DEF Modest, Changes, Config!DeleteBucketEncryption, Config!Without
<1> HIDE DEF quiet
<1>6. CASE kind = "encryption"
  BY <1>1, <1>3, <1>4, <1>5, <1>6 DEF Config!Functions, Config!GetBucketEncryption,
     Config!SetBucketEncryption
<1>7. CASE kind = "lifecycle"
  BY <1>1, <1>3, <1>4, <1>7 DEF Config!Functions, Config!SetBucketLifecycle,
     Config!DeleteBucketLifecycle
<1>8. CASE kind = "notification"
  BY <1>1, <1>3, <1>4, <1>8 DEF Config!Functions, Config!GetBucketNotification,
     Config!SetBucketNotification
<1>9. CASE kind = "objectLock"
  BY <1>1, <1>3, <1>4, <1>9 DEF Config!Functions, Config!GetObjectLockConfig,
     Config!SetObjectLockConfig, Config!DeleteObjectLockConfig
<1>10. CASE kind = "policy"
  BY <1>1, <1>3, <1>4, <1>10 DEF Config!Functions, Config!GetBucketPolicy,
     Config!SetBucketPolicy, Config!DeleteBucketPolicy
<1>11. CASE kind = "replication"
  BY <1>1, <1>3, <1>4, <1>11 DEF Config!Functions, Config!GetBucketReplication,
     Config!SetBucketReplication
<1>12. CASE kind = "tags"
  BY <1>1, <1>3, <1>4, <1>12 DEF Config!Functions, Config!GetBucketTags, Config!SetBucketTags,
     Config!DeleteBucketTags
<1>13. CASE kind = "versioning"
  BY <1>1, <1>3, <1>4, <1>13 DEF Config!Functions, Config!GetBucketVersioning,
     Config!SetBucketVersioning
<1>14. CASE kind = "legalHold"
  BY <1>1, <1>2, <1>3, <1>4, <1>14 DEF Config!Functions
<1>15. CASE kind = "retention"
  BY <1>1, <1>2, <1>3, <1>4, <1>15 DEF Config!Functions, Config!SetObjectRetention
<1>16. CASE kind = "objectTags"
  BY <1>1, <1>2, <1>3, <1>4, <1>16 DEF Config!Functions, Config!GetObjectTags,
     Config!SetObjectTags, Config!DeleteObjectTags
<1> QED
  BY <1>6, <1>7, <1>8, <1>9, <1>10, <1>11, <1>12, <1>13, <1>14, <1>15, <1>16 DEF Config!Kinds

LEMMA ConfigInit ==
  ASSUME Config!Init
  PROVE  ConfigInv
<1>1. ConfigTypes
  BY DEF Config!Init, ConfigTypes
<1>2. ASSUME NEW t \in Threads PROVE DoneInv(t)
  BY DEF Config!Init, DoneInv, Modest, Changes, Config!Nothing
<1> QED BY <1>1, <1>2 DEF ConfigInv

\* A step of thread u that serves nothing leaves the other threads alone.
LEMMA ConfigOthers ==
  ASSUME ConfigInv, ConfigTypes', NEW u \in Threads, DoneInv(u)', kind' = kind,
         \A t \in Threads \ {u} : /\ pc'[t] = pc[t] /\ call'[t] = call[t] /\ reply'[t] = reply[t]
                                  /\ result'[t] = result[t] /\ seen[t] \subseteq seen'[t]
  PROVE  ConfigInv'
<1>1. ASSUME NEW t \in Threads PROVE DoneInv(t)'
  <2>1. CASE t = u
    BY <2>1
  <2>2. CASE t # u
    <3>1. /\ pc'[t] = pc[t] /\ call'[t] = call[t] /\ reply'[t] = reply[t]
          /\ result'[t] = result[t] /\ seen[t] \subseteq seen'[t]
      BY <2>2
    <3> QED BY <3>1 DEF ConfigInv, DoneInv, Modest, Changes
  <2> QED BY <2>1, <2>2
<1> QED BY <1>1 DEF ConfigInv

LEMMA ConfigCall ==
  ASSUME ConfigInv, NEW t \in Threads, NEW f \in Config!Functions, NEW x, Config!Call(t, f, x)
  PROVE  ConfigInv'
<1>1. /\ call' = [call EXCEPT ![t] = [verb |-> f.verb, x |-> x, valid |-> x \in f.valid,
                                      forgiven |-> f.forgiven]]
      /\ result' = [result EXCEPT ![t] = Config!Nothing]
      /\ seen' = [seen EXCEPT ![t] = {given}]
      /\ pc' = [pc EXCEPT ![t] = "called"]
      /\ UNCHANGED <<kind, reply>>
  BY DEF Config!Call, Config!Goto
<1>2. ConfigTypes'
  BY <1>1 DEF ConfigInv, ConfigTypes
<1>3. /\ pc'[t] = "called" /\ result'[t].status = "none"
      /\ call'[t].verb = f.verb /\ call'[t].forgiven = f.forgiven
  BY <1>1 DEF ConfigInv, ConfigTypes, Config!Nothing
<1>4. Modest(f)
  BY FunctionsModest DEF ConfigInv, ConfigTypes
<1>5. DoneInv(t)'
  BY <1>1, <1>3, <1>4 DEF DoneInv, Modest, Changes
<1> QED BY <1>1, <1>2, <1>5, ConfigOthers DEF ConfigInv, ConfigTypes

LEMMA ConfigServe ==
  ASSUME ConfigInv, NEW t \in Threads, Config!Serve(t)
  PROVE  ConfigInv'
<1>1. /\ DOMAIN reply' = DOMAIN reply /\ pc' = [pc EXCEPT ![t] = "reply"]
      /\ \A s \in Threads \ {t} : reply'[s] = reply[s]
      /\ seen' = [s \in Threads |-> seen[s] \cup {given'}]
      /\ UNCHANGED <<kind, call, result>>
  BY DEF Config!Serve, Config!Goto
<1>2. ConfigTypes'
  BY <1>1 DEF ConfigInv, ConfigTypes
<1>3. Changes(call[t]) => given' = call[t].x
  BY DEF Config!Serve, Config!Apply, Changes
<1>4. DoneInv(t)'
  BY <1>1, <1>3 DEF ConfigInv, DoneInv, Modest, Changes
<1> QED BY <1>1, <1>2, <1>4, ConfigOthers DEF ConfigInv, ConfigTypes

\* A request that was refused or lost is not taken for one that was done.
LEMMA ConfigRefuse ==
  ASSUME ConfigInv, NEW t \in Threads, Config!Refuse(t) \/ Config!Lose(t)
  PROVE  ConfigInv'
<1>1. PICK r \in {Config!Refusal, Config!Silence} : reply' = [reply EXCEPT ![t] = r]
  BY DEF Config!Refuse, Config!Lose
<1>2. /\ DOMAIN pc' = DOMAIN pc /\ \A s \in Threads \ {t} : pc'[s] = pc[s]
      /\ UNCHANGED <<kind, call, result, seen>>
  BY DEF Config!Refuse, Config!Lose, Config!Goto, ConfigInv, ConfigTypes
<1>3. ConfigTypes'
  BY <1>1, <1>2 DEF ConfigInv, ConfigTypes
<1>4. reply'[t].code \in {"AccessDenied", "none"}
  BY <1>1 DEF ConfigInv, ConfigTypes, Config!Refusal, Config!Silence
<1>5. DoneInv(t)'
  BY <1>2, <1>4 DEF ConfigInv, DoneInv, Modest, Changes
<1> QED BY <1>1, <1>2, <1>3, <1>5, ConfigOthers DEF ConfigInv, ConfigTypes

LEMMA ConfigReturn ==
  ASSUME ConfigInv, NEW t \in Threads, NEW status, NEW value, Config!Return(t, status, value),
         UNCHANGED <<kind, call, reply, seen>>,
         status = "ok" /\ Changes(call[t]) => call[t].x \in seen[t]
  PROVE  ConfigInv'
<1>1. result' = [result EXCEPT ![t] = [status |-> status, value |-> value]]
      /\ pc' = [pc EXCEPT ![t] = "idle"]
  BY DEF Config!Return, Config!Goto
<1>2. ConfigTypes'
  BY <1>1 DEF ConfigInv, ConfigTypes
<1>3. pc'[t] = "idle" /\ result'[t].status = status
  BY <1>1 DEF ConfigInv, ConfigTypes
<1>4. DoneInv(t)'
  BY <1>3 DEF ConfigInv, DoneInv, Modest, Changes
<1> QED BY <1>1, <1>2, <1>4, ConfigOthers DEF ConfigInv, ConfigTypes

LEMMA ConfigRespond ==
  ASSUME ConfigInv, NEW t \in Threads, Config!Respond(t)
  PROVE  ConfigInv'
<1>1. pc[t] = "reply" /\ UNCHANGED <<kind, call, reply, seen>>
  BY DEF Config!Respond
<1>2. CASE reply[t].code # "ok" /\ reply[t].code \notin call[t].forgiven
  <2>1. Config!Return(t, "err", <<>>)
    BY <1>2 DEF Config!Respond
  <2> QED BY <1>1, <2>1, ConfigReturn
<1>3. CASE reply[t].code = "ok" \/ reply[t].code \in call[t].forgiven
  <2>1. Changes(call[t]) => call[t].x \in seen[t]
    BY <1>1, <1>3 DEF ConfigInv, DoneInv
  <2>2. \E status, value : Config!Return(t, status, value)
    BY DEF Config!Respond
  <2> QED BY <1>1, <2>1, <2>2, ConfigReturn
<1> QED BY <1>2, <1>3

LEMMA ConfigNext ==
  ASSUME ConfigInv, [Config!Next]_Config!vars
  PROVE  ConfigInv'
<1>1. ASSUME NEW t \in Threads, NEW f \in Config!Functions, NEW x, Config!Call(t, f, x)
      PROVE  ConfigInv'
  BY <1>1, ConfigCall
<1>2. ASSUME NEW t \in Threads, Config!Rejected(t) PROVE ConfigInv'
  BY <1>2, ConfigReturn DEF Config!Rejected
<1>3. ASSUME NEW t \in Threads, Config!Build(t) PROVE ConfigInv'
  <2>1. pc' = [pc EXCEPT ![t] = "sending"] /\ UNCHANGED <<kind, call, reply, result, seen>>
    BY <1>3 DEF Config!Build, Config!Goto
  <2>2. ConfigTypes' /\ pc'[t] = "sending"
    BY <2>1 DEF ConfigInv, ConfigTypes
  <2>3. DoneInv(t)'
    BY <2>1, <2>2 DEF ConfigInv, DoneInv, Modest, Changes
  <2> QED BY <2>1, <2>2, <2>3, ConfigOthers DEF ConfigInv, ConfigTypes
<1>4. ASSUME NEW t \in Threads, Config!Serve(t) PROVE ConfigInv'
  BY <1>4, ConfigServe
<1>5. ASSUME NEW t \in Threads, Config!Refuse(t) \/ Config!Lose(t) PROVE ConfigInv'
  BY <1>5, ConfigRefuse
<1>6. ASSUME NEW t \in Threads, Config!Respond(t) PROVE ConfigInv'
  BY <1>6, ConfigRespond
<1>7. CASE UNCHANGED Config!vars
  BY <1>7 DEF Config!vars, Config!threadVars, ConfigInv, ConfigTypes, DoneInv, Modest, Changes
<1> QED BY <1>1, <1>2, <1>3, <1>4, <1>5, <1>6, <1>7 DEF Config!Next

\* A call that says it has set or deleted a configuration of the bucket has: whatever
\* answers are lost and whatever other threads set meanwhile, no refusal and no
\* silence is taken for success, except by DeleteBucketEncryption.
THEOREM SuccessWasDone == Config!Spec => []Config!SuccessMeansDone
<1>1. Config!Init => ConfigInv
  BY ConfigInit
<1>2. ConfigInv /\ [Config!Next]_Config!vars => ConfigInv'
  BY ConfigNext
<1>3. ConfigInv => Config!SuccessMeansDone
  BY DEF ConfigInv, DoneInv, Changes, Config!SuccessMeansDone
<1> QED BY <1>1, <1>2, <1>3, PTL DEF Config!Spec

----------------------------------------------------------------------------
(* The documents: what is read of a document is what was written to it, but *)
(* for what Reads says is lost.                                             *)

\* A document of a set of elements none of which has two texts.
OneText(elements) == \A d, e \in elements : d[1] = e[1] => d[2] = e[2]

LEMMA TextIs ==
  ASSUME NEW S, OneText(S), NEW p, NEW v, Config!Element(p, v) \in S
  PROVE  Config!Text(Config!Written(S), p) = v
<1> DEFINE e == <<p, v>>
           W == Config!Written(S)
           c == CHOOSE d \in W : d[1] = p
<1>1. e \in S /\ e[1] = p /\ e[2] = v
  BY DEF Config!Element
<1>2. CASE v # ""
  <2>1. e \in W
    BY <1>1, <1>2 DEF Config!Written
  <2>2. c \in W /\ c[1] = p
    BY <1>1, <2>1
  <2>3. c[2] = v
    BY <1>1, <2>2 DEF Config!Written, OneText
  <2> QED BY <1>1, <2>1, <2>3 DEF Config!Text
<1>3. CASE v = ""
  <2>1. \A d \in W : d[1] # p
    BY <1>1, <1>3 DEF Config!Written, OneText
  <2> QED BY <1>3, <2>1 DEF Config!Text
<1> QED BY <1>2, <1>3

LEMMA TextIsNot ==
  ASSUME NEW S, NEW p, \A e \in S : e[1] # p
  PROVE  Config!Text(Config!Written(S), p) = ""
  BY DEF Config!Text, Config!Written

\* The elements in a container, itself included.
Below(elements, path) == {e \in elements : Config!IsPrefix(path, e[1])}

LEMMA HasIs ==
  ASSUME NEW S, NEW path, NEW d, NEW e, Below(S, path) = {d, e}
  PROVE  Config!Has(Config!Written(S), path) <=> d[2] # "" \/ e[2] # ""
<1>1. Config!Has(Config!Written(S), path) <=> \E b \in Below(S, path) : b[2] # ""
  BY DEF Config!Has, Config!Written, Below
<1> QED BY <1>1

LEMMA FilterRead ==
  ASSUME NEW f \in Config!Filters, NEW S, OneText(S), Config!FilterXML(f) \subseteq S,
         \A e \in S : e[1] # <<"And", "Tag">>
  PROVE  Config!ReadFilter(Config!Written(S)) = Config!FilterKept(f)
<1> DEFINE doc == Config!Written(S)
<1>1. /\ Config!Text(doc, <<"Filter", "And", "Prefix">>) = f.and_prefix
      /\ Config!Text(doc, <<"Filter", "Prefix">>) = f.prefix
      /\ Config!Text(doc, <<"Filter", "Tag", "Key">>) = f.tag_key
      /\ Config!Text(doc, <<"Filter", "Tag", "Value">>) = Config!When(f.tag_key, f.tag_value)
  BY TextIs DEF Config!FilterXML
<1>2. Config!Text(doc, <<"And", "Tag">>) = ""
  BY TextIsNot
<1> DEFINE read == Config!ReadFilter(doc)
           kept == Config!FilterKept(f)
<1>3. /\ DOMAIN read = {"and_prefix", "and_tags", "prefix", "tag_key", "tag_value"}
      /\ DOMAIN kept = DOMAIN read
      /\ read = [x \in DOMAIN read |-> read[x]] /\ kept = [x \in DOMAIN kept |-> kept[x]]
  BY DEF Config!ReadFilter, Config!FilterKept, Config!Filters
<1>4. /\ read.and_prefix = kept.and_prefix /\ read.and_tags = kept.and_tags
      /\ read.prefix = kept.prefix /\ read.tag_key = kept.tag_key
      /\ read.tag_value = kept.tag_value
  BY <1>1, <1>2 DEF Config!ReadFilter, Config!FilterKept, Config!Filters
<1> HIDE DEF read, kept
<1>5. read = kept
  BY <1>3, <1>4
<1> QED BY <1>5 DEF read, kept

LEMMA LifecycleDocument ==
  ASSUME NEW r
  PROVE  /\ OneText(Config!LifecycleElements(r))
         /\ Config!LifecycleRuleXML(r) = Config!Written(Config!LifecycleElements(r))
<1>1. OneText(Config!LifecycleElements(r))
  BY SMTT(60) DEF OneText, Config!LifecycleElements, Config!FilterXML, Config!Element
<1>2. Config!LifecycleRuleXML(r) = Config!Written(Config!LifecycleElements(r))
  BY DEF Config!LifecycleRuleXML
<1> QED BY <1>1, <1>2

\* What a time is after its conversion to a text and back.
LEMMA TimeTrip ==
  ASSUME NEW time \in Config!Times
  PROVE  /\ Config!FromISO8601UTC(Config!ToISO8601UTC(time)) = Config!TimeKept(time)
         /\ Config!FromISO8601UTC(Config!TimeIfSet(time)) = Config!DateKept(time)
<1>1. Config!FromISO8601UTC(Config!ToISO8601UTC(time)) = Config!TimeKept(time)
  BY DEF Config!Times, Config!FromISO8601UTC, Config!ToISO8601UTC, Config!TimeKept
<1>2. CASE Config!IsTime(time)
  <2>1. Config!DateKept(time) = Config!TimeKept(time)
    BY <1>2 DEF Config!DateKept, Config!IsTime
  <2> QED BY <1>1, <1>2, <2>1 DEF Config!TimeIfSet
<1>3. CASE ~Config!IsTime(time)
  <2>1. Config!DateKept(time) = ""
    BY <1>3 DEF Config!DateKept, Config!IsTime, Config!TimeKept
  <2>2. Config!FromISO8601UTC("") = ""
    BY DEF Config!FromISO8601UTC
  <2> QED BY <1>1, <1>3, <2>1, <2>2 DEF Config!TimeIfSet
<1> QED BY <1>1, <1>2, <1>3

LEMMA LifecycleRead ==
  ASSUME NEW r \in Config!LifecycleRules
  PROVE  Config!ReadLifecycleRule(Config!LifecycleRuleXML(r)) = Config!LifecycleKept(r)
<1> DEFINE S == Config!LifecycleElements(r)
           doc == Config!Written(S)
<1>1. Config!LifecycleRuleXML(r) = doc /\ OneText(S)
  BY LifecycleDocument
<1>2. /\ Config!Text(doc, <<"AbortIncompleteMultipartUpload", "DaysAfterInitiation">>)
           = r.abort_days
      /\ Config!Text(doc, <<"Expiration", "Date">>) = Config!TimeIfSet(r.expiration_date)
      /\ Config!Text(doc, <<"Expiration", "Days">>) = r.expiration_days
      /\ Config!Text(doc, <<"ID">>) = r.id
      /\ Config!Text(doc, <<"NoncurrentVersionExpiration", "NoncurrentDays">>)
           = r.noncurrent_expiration_days
      /\ Config!Text(doc, <<"NoncurrentVersionTransition", "NoncurrentDays">>)
           = r.noncurrent_transition_days
      /\ Config!Text(doc, <<"NoncurrentVersionTransition", "StorageClass">>)
           = r.noncurrent_transition_class
      /\ Config!Text(doc, <<"Status">>) = Config!StatusXML(r.status)
      /\ Config!Text(doc, <<"Transition", "Date">>) = Config!TimeIfSet(r.transition_date)
      /\ Config!Text(doc, <<"Transition", "Days">>) = r.transition_days
      /\ Config!Text(doc, <<"Transition", "StorageClass">>) = r.transition_class
  BY <1>1, TextIs DEF Config!LifecycleElements
<1>3. Config!Has(doc, <<"Expiration", "ExpiredObjectDeleteMarker">>)
        <=> r.expired_delete_marker # ""
  <2> DEFINE path == <<"Expiration", "ExpiredObjectDeleteMarker">>
             part == Config!Element(path, r.expired_delete_marker)
  <2>1. Below(S, path) = {part, part}
    BY DEF Below, Config!LifecycleElements, Config!FilterXML, Config!Element, Config!IsPrefix
  <2>2. part[2] = r.expired_delete_marker
    BY DEF Config!Element
  <2> HIDE DEF part
  <2> QED BY <2>1, <2>2, HasIs
<1>4. Config!ReadFilter(doc) = Config!FilterKept(r.filter)
  <2>1. r.filter \in Config!Filters /\ Config!FilterXML(r.filter) \subseteq S
    BY DEF Config!LifecycleRules, Config!LifecycleElements
  <2>2. \A e \in S : e[1] # <<"And", "Tag">>
    BY DEF Config!LifecycleElements, Config!FilterXML, Config!Element
  <2> QED BY <1>1, <2>1, <2>2, FilterRead
<1>5. Config!IsEnabled(Config!StatusXML(r.status)) = r.status
  BY DEF Config!IsEnabled, Config!StatusXML, Config!LifecycleRules
<1> HIDE DEF doc, S
<1>6. Config!ReadLifecycleRule(doc) = Config!LifecycleKept(r)
  <2> DEFINE read == Config!ReadLifecycleRule(doc)
             kept == Config!LifecycleKept(r)
  <2>1. /\ DOMAIN read = {"abort_days", "expiration_date", "expiration_days",
             "expired_delete_marker", "filter", "id", "noncurrent_expiration_days",
             "noncurrent_transition_days", "noncurrent_transition_class", "status",
             "transition_date", "transition_days", "transition_class"}
        /\ read = [x \in DOMAIN read |-> read[x]]
    BY DEF Config!ReadLifecycleRule
  <2>2. DOMAIN kept = DOMAIN read /\ kept = [x \in DOMAIN kept |-> kept[x]]
    BY DEF Config!ReadLifecycleRule, Config!LifecycleKept, Config!LifecycleRules
  <2>3. /\ read.abort_days = kept.abort_days
        /\ read.expiration_days = kept.expiration_days
        /\ read.id = kept.id
        /\ read.noncurrent_expiration_days = kept.noncurrent_expiration_days
        /\ read.noncurrent_transition_days = kept.noncurrent_transition_days
        /\ read.noncurrent_transition_class = kept.noncurrent_transition_class
        /\ read.transition_days = kept.transition_days
        /\ read.transition_class = kept.transition_class
    BY <1>2 DEF Config!ReadLifecycleRule, Config!LifecycleKept, Config!LifecycleRules
  <2>6. /\ read.expiration_date = kept.expiration_date
        /\ read.transition_date = kept.transition_date
    <3>1. r.expiration_date \in Config!Times /\ r.transition_date \in Config!Times
      BY DEF Config!LifecycleRules
    <3>2. /\ read.expiration_date = Config!DateKept(r.expiration_date)
          /\ read.transition_date = Config!DateKept(r.transition_date)
      BY <1>2, <3>1, TimeTrip DEF Config!ReadLifecycleRule
    <3>3. /\ kept.expiration_date = Config!DateKept(r.expiration_date)
          /\ kept.transition_date = Config!DateKept(r.transition_date)
      BY DEF Config!LifecycleKept, Config!LifecycleRules
    <3> QED BY <3>2, <3>3
  <2>4. /\ read.status = kept.status
        /\ read.filter = kept.filter
        /\ read.expired_delete_marker = kept.expired_delete_marker
    BY <1>2, <1>3, <1>4, <1>5
       DEF Config!ReadLifecycleRule, Config!LifecycleKept, Config!LifecycleRules, Config!When
  <2> HIDE DEF read, kept
  <2>5. read = kept
    BY <2>1, <2>2, <2>3, <2>4, <2>6
  <2> QED BY <2>5 DEF read, kept
<1> QED BY <1>1, <1>6

LEMMA LifecycleThrows ==
  ASSUME NEW r \in Config!LifecycleRules
  PROVE  Config!LifecycleRuleThrows(Config!LifecycleRuleXML(r))
           <=> r.noncurrent_transition_class # "" /\ r.noncurrent_transition_days = ""
<1> DEFINE S == Config!LifecycleElements(r)
           doc == Config!Written(S)
           abort == Config!Element(<<"AbortIncompleteMultipartUpload", "DaysAfterInitiation">>,
                      r.abort_days)
           expiry == Config!Element(<<"NoncurrentVersionExpiration", "NoncurrentDays">>,
                       r.noncurrent_expiration_days)
           days == Config!Element(<<"NoncurrentVersionTransition", "NoncurrentDays">>,
                     r.noncurrent_transition_days)
           class == Config!Element(<<"NoncurrentVersionTransition", "StorageClass">>,
                      r.noncurrent_transition_class)
<1>1. Config!LifecycleRuleXML(r) = doc /\ OneText(S)
  BY LifecycleDocument
<1>2. /\ Config!Text(doc, <<"AbortIncompleteMultipartUpload", "DaysAfterInitiation">>)
           = r.abort_days
      /\ Config!Text(doc, <<"NoncurrentVersionExpiration", "NoncurrentDays">>)
           = r.noncurrent_expiration_days
      /\ Config!Text(doc, <<"NoncurrentVersionTransition", "NoncurrentDays">>)
           = r.noncurrent_transition_days
  BY <1>1, TextIs DEF Config!LifecycleElements
<1>3. Config!Has(doc, <<"AbortIncompleteMultipartUpload">>) <=> r.abort_days # ""
  <2>1. Below(S, <<"AbortIncompleteMultipartUpload">>) = {abort, abort}
    BY DEF Below, Config!LifecycleElements, Config!FilterXML, Config!Element, Config!IsPrefix
  <2>2. abort[2] = r.abort_days
    BY DEF Config!Element
  <2> HIDE DEF abort
  <2> QED BY <2>1, <2>2, HasIs
<1>4. Config!Has(doc, <<"NoncurrentVersionExpiration">>) <=> r.noncurrent_expiration_days # ""
  <2>1. Below(S, <<"NoncurrentVersionExpiration">>) = {expiry, expiry}
    BY DEF Below, Config!LifecycleElements, Config!FilterXML, Config!Element, Config!IsPrefix
  <2>2. expiry[2] = r.noncurrent_expiration_days
    BY DEF Config!Element
  <2> HIDE DEF expiry
  <2> QED BY <2>1, <2>2, HasIs
<1>5. Config!Has(doc, <<"NoncurrentVersionTransition">>)
        <=> r.noncurrent_transition_days # "" \/ r.noncurrent_transition_class # ""
  <2>1. Below(S, <<"NoncurrentVersionTransition">>) = {days, class}
    BY DEF Below, Config!LifecycleElements, Config!FilterXML, Config!Element, Config!IsPrefix
  <2>2. days[2] = r.noncurrent_transition_days /\ class[2] = r.noncurrent_transition_class
    BY DEF Config!Element
  <2> HIDE DEF days, class
  <2> QED BY <2>1, <2>2, HasIs
<1> HIDE DEF doc, S
<1>6. Config!LifecycleRuleThrows(doc)
        <=> r.noncurrent_transition_class # "" /\ r.noncurrent_transition_days = ""
  BY <1>2, <1>3, <1>4, <1>5 DEF Config!LifecycleRuleThrows, Config!NoNumber
<1> QED BY <1>1, <1>6

LEMMA FlagKept ==
  ASSUME NEW b \in Config!Flags
  PROVE  /\ Config!StatusXML(b) # "" <=> b # ""
         /\ b # "" => Config!IsEnabled(Config!StatusXML(b)) = b
  BY DEF Config!Flags, Config!StatusXML, Config!IsEnabled

\* The elements of a rule but those of its destination and its filter.
OtherElements(r) ==
  {Config!Element(<<"DeleteMarkerReplication", "Status">>,
     Config!StatusXML(r.delete_marker_status)),
   Config!Element(<<"ExistingObjectReplication", "Status">>,
     Config!StatusXML(r.existing_object_status)),
   Config!Element(<<"ID">>, r.id),
   Config!Element(<<"Prefix">>, r.prefix),
   Config!Element(<<"Priority">>, r.priority),
   Config!Element(<<"SourceSelectionCriteria">>, r.source_selection_criteria),
   Config!Element(<<"SourceSelectionCriteria", "SseKmsEncryptedObjects", "Status">>,
     Config!When(r.source_selection_criteria, Config!StatusXML(r.sse_kms_status))),
   Config!Element(<<"DeleteReplication", "Status">>, Config!StatusXML(r.delete_status)),
   Config!Element(<<"Status">>, Config!StatusXML(r.status))}

FilterElements(r) == IF Config!IsFilter(r.filter) THEN Config!FilterXML(r.filter) ELSE {}

\* The three parts of a rule's elements, told apart by the outermost name.
LEMMA ReplicationParts ==
  ASSUME NEW r
  PROVE  LET D == Config!DestinationXML(r.destination)
             F == FilterElements(r)
             O == OtherElements(r)
         IN  /\ Config!ReplicationElements(r) = D \cup F \cup O
             /\ OneText(D) /\ OneText(F) /\ OneText(O)
             /\ \A e \in D : e[1][1] = "Destination"
             /\ \A e \in F : e[1][1] = "Filter"
             /\ \A e \in O : e[1][1] \notin {"Destination", "Filter", "And"}
<1> DEFINE D == Config!DestinationXML(r.destination)
           F == FilterElements(r)
           O == OtherElements(r)
<1>1. OneText(D) /\ \A e \in D : e[1][1] = "Destination"
  BY DEF OneText, Config!DestinationXML, Config!Element
<1>2. OneText(F) /\ \A e \in F : e[1][1] = "Filter"
  BY DEF OneText, FilterElements, Config!FilterXML, Config!Element
<1>3. OneText(O) /\ \A e \in O : e[1][1] \notin {"Destination", "Filter", "And"}
  BY DEF OneText, OtherElements, Config!Element
<1>4. Config!ReplicationElements(r) = D \cup F \cup O
  BY DEF Config!ReplicationElements, FilterElements, OtherElements
<1> QED BY <1>1, <1>2, <1>3, <1>4

LEMMA ReplicationDocument ==
  ASSUME NEW r
  PROVE  /\ OneText(Config!ReplicationElements(r))
         /\ Config!ReplicationRuleXML(r) = Config!Written(Config!ReplicationElements(r))
  BY ReplicationParts DEF OneText, Config!ReplicationRuleXML

\* What is in the containers of a destination.
LEMMA DestinationContainers ==
  ASSUME NEW r \in Config!ReplicationRules
  PROVE  LET d == r.destination
             doc == Config!Written(Config!ReplicationElements(r))
         IN  /\ Config!Has(doc, <<"Destination", "EncryptionConfiguration">>)
                  <=> d.encryption_config # ""
             /\ Config!Has(doc, <<"Destination", "Metrics">>) <=> d.metrics # ""
             /\ Config!Has(doc, <<"Destination", "ReplicationTime">>)
                  <=> d.replication_time # ""
<1> DEFINE d == r.destination
           S == Config!ReplicationElements(r)
           D == Config!DestinationXML(d)
<1>1. D \subseteq S /\ \A e \in S \ D : e[1][1] # "Destination"
  BY ReplicationParts
<1>2. d.metrics \in Config!Flags /\ d.replication_time \in Config!Flags
  BY DEF Config!ReplicationRules, Config!Destinations
<1>3. Config!Has(Config!Written(S), <<"Destination", "EncryptionConfiguration">>)
        <=> d.encryption_config # ""
  <2> DEFINE part == Config!Element(<<"Destination", "EncryptionConfiguration">>,
                       d.encryption_config)
             key == Config!Element(
                       <<"Destination", "EncryptionConfiguration", "ReplicaKmsKeyID">>,
                       Config!When(d.encryption_config, d.replica_kms_key_id))
  <2>1. Below(D, <<"Destination", "EncryptionConfiguration">>) = {part, key}
    BY DEF Below, Config!DestinationXML, Config!Element, Config!IsPrefix
  <2>2. Below(S, <<"Destination", "EncryptionConfiguration">>)
          = Below(D, <<"Destination", "EncryptionConfiguration">>)
    <3> HIDE DEF S, D
    <3> QED BY <1>1 DEF Below, Config!IsPrefix
  <2>3. /\ part[2] = d.encryption_config
        /\ key[2] = Config!When(d.encryption_config, d.replica_kms_key_id)
    BY DEF Config!Element
  <2> HIDE DEF S, D, part, key
  <2>4. Config!Has(Config!Written(S), <<"Destination", "EncryptionConfiguration">>)
          <=> \/ d.encryption_config # ""
              \/ Config!When(d.encryption_config, d.replica_kms_key_id) # ""
    BY <2>1, <2>2, <2>3, HasIs
  <2> QED BY <2>4 DEF Config!When
<1>4. Config!Has(Config!Written(S), <<"Destination", "Metrics">>)
        <=> d.metrics # ""
  <2> DEFINE minutes == Config!Element(<<"Destination", "Metrics", "EventThreshold", "Minutes">>,
                       Config!When(d.metrics, d.event_threshold_minutes))
             status == Config!Element(<<"Destination", "Metrics", "EventThreshold", "Status">>,
                       Config!StatusXML(d.metrics))
  <2>1. Below(D, <<"Destination", "Metrics">>) = {minutes, status}
    BY DEF Below, Config!DestinationXML, Config!Element, Config!IsPrefix
  <2>2. Below(S, <<"Destination", "Metrics">>) = Below(D, <<"Destination", "Metrics">>)
    <3> HIDE DEF S, D
    <3> QED BY <1>1 DEF Below, Config!IsPrefix
  <2>3. /\ minutes[2] = Config!When(d.metrics, d.event_threshold_minutes)
        /\ status[2] = Config!StatusXML(d.metrics)
    BY DEF Config!Element
  <2> HIDE DEF S, D, minutes, status
  <2>4. Config!Has(Config!Written(S), <<"Destination", "Metrics">>)
          <=> \/ Config!When(d.metrics, d.event_threshold_minutes) # ""
              \/ Config!StatusXML(d.metrics) # ""
    BY <2>1, <2>2, <2>3, HasIs
  <2> QED BY <2>4, <1>2, FlagKept DEF Config!When
<1>5. Config!Has(Config!Written(S), <<"Destination", "ReplicationTime">>)
        <=> d.replication_time # ""
  <2> DEFINE minutes == Config!Element(<<"Destination", "ReplicationTime", "Time", "Minutes">>,
                       Config!When(d.replication_time, d.time_minutes))
             status == Config!Element(<<"Destination", "ReplicationTime", "Status">>,
                       Config!StatusXML(d.replication_time))
  <2>1. Below(D, <<"Destination", "ReplicationTime">>) = {minutes, status}
    BY DEF Below, Config!DestinationXML, Config!Element, Config!IsPrefix
  <2>2. Below(S, <<"Destination", "ReplicationTime">>)
          = Below(D, <<"Destination", "ReplicationTime">>)
    <3> HIDE DEF S, D
    <3> QED BY <1>1 DEF Below, Config!IsPrefix
  <2>3. /\ minutes[2] = Config!When(d.replication_time, d.time_minutes)
        /\ status[2] = Config!StatusXML(d.replication_time)
    BY DEF Config!Element
  <2> HIDE DEF S, D, minutes, status
  <2>4. Config!Has(Config!Written(S), <<"Destination", "ReplicationTime">>)
          <=> \/ Config!When(d.replication_time, d.time_minutes) # ""
              \/ Config!StatusXML(d.replication_time) # ""
    BY <2>1, <2>2, <2>3, HasIs
  <2> QED BY <2>4, <1>2, FlagKept DEF Config!When
<1> QED BY <1>3, <1>4, <1>5

\* What is in the other containers of a rule.
LEMMA RuleContainers ==
  ASSUME NEW r \in Config!ReplicationRules
  PROVE  LET doc == Config!Written(Config!ReplicationElements(r))
         IN  /\ Config!Has(doc, <<"DeleteMarkerReplication">>) <=> r.delete_marker_status # ""
             /\ Config!Has(doc, <<"ExistingObjectReplication">>)
                  <=> r.existing_object_status # ""
             /\ Config!Has(doc, <<"SourceSelectionCriteria">>)
                  <=> r.source_selection_criteria # ""
             /\ Config!Has(doc, <<"SourceSelectionCriteria", "SseKmsEncryptedObjects">>)
                  <=> r.source_selection_criteria # "" /\ r.sse_kms_status # ""
             /\ Config!Has(doc, <<"DeleteReplication">>) <=> r.delete_status # ""
<1> DEFINE S == Config!ReplicationElements(r)
           O == OtherElements(r)
<1>1. /\ O \subseteq S
      /\ \A e \in S \ O : e[1][1] \in {"Destination", "Filter"}
  BY ReplicationParts
<1>2. /\ r.delete_marker_status \in Config!Flags /\ r.existing_object_status \in Config!Flags
      /\ r.sse_kms_status \in Config!Flags /\ r.delete_status \in Config!Flags
  BY DEF Config!ReplicationRules
<1>3. Config!Has(Config!Written(S), <<"DeleteMarkerReplication">>)
        <=> r.delete_marker_status # ""
  <2> DEFINE status == Config!Element(<<"DeleteMarkerReplication", "Status">>,
                       Config!StatusXML(r.delete_marker_status))
  <2>1. Below(O, <<"DeleteMarkerReplication">>) = {status, status}
    BY DEF Below, OtherElements, Config!Element, Config!IsPrefix
  <2>2. Below(S, <<"DeleteMarkerReplication">>) = Below(O, <<"DeleteMarkerReplication">>)
    <3> HIDE DEF S, O
    <3> QED BY <1>1 DEF Below, Config!IsPrefix
  <2>3. status[2] = Config!StatusXML(r.delete_marker_status)
    BY DEF Config!Element
  <2> HIDE DEF S, O, status
  <2>4. Config!Has(Config!Written(S), <<"DeleteMarkerReplication">>)
          <=> Config!StatusXML(r.delete_marker_status) # ""
    BY <2>1, <2>2, <2>3, HasIs
  <2> QED BY <2>4, <1>2, FlagKept
<1>4. Config!Has(Config!Written(S), <<"ExistingObjectReplication">>)
        <=> r.existing_object_status # ""
  <2> DEFINE status == Config!Element(<<"ExistingObjectReplication", "Status">>,
                       Config!StatusXML(r.existing_object_status))
  <2>1. Below(O, <<"ExistingObjectReplication">>) = {status, status}
    BY DEF Below, OtherElements, Config!Element, Config!IsPrefix
  <2>2. Below(S, <<"ExistingObjectReplication">>) = Below(O, <<"ExistingObjectReplication">>)
    <3> HIDE DEF S, O
    <3> QED BY <1>1 DEF Below, Config!IsPrefix
  <2>3. status[2] = Config!StatusXML(r.existing_object_status)
    BY DEF Config!Element
  <2> HIDE DEF S, O, status
  <2>4. Config!Has(Config!Written(S), <<"ExistingObjectReplication">>)
          <=> Config!StatusXML(r.existing_object_status) # ""
    BY <2>1, <2>2, <2>3, HasIs
  <2> QED BY <2>4, <1>2, FlagKept
<1>5. Config!Has(Config!Written(S), <<"DeleteReplication">>)
        <=> r.delete_status # ""
  <2> DEFINE status == Config!Element(<<"DeleteReplication", "Status">>,
                       Config!StatusXML(r.delete_status))
  <2>1. Below(O, <<"DeleteReplication">>) = {status, status}
    BY DEF Below, OtherElements, Config!Element, Config!IsPrefix
  <2>2. Below(S, <<"DeleteReplication">>) = Below(O, <<"DeleteReplication">>)
    <3> HIDE DEF S, O
    <3> QED BY <1>1 DEF Below, Config!IsPrefix
  <2>3. status[2] = Config!StatusXML(r.delete_status)
    BY DEF Config!Element
  <2> HIDE DEF S, O, status
  <2>4. Config!Has(Config!Written(S), <<"DeleteReplication">>)
          <=> Config!StatusXML(r.delete_status) # ""
    BY <2>1, <2>2, <2>3, HasIs
  <2> QED BY <2>4, <1>2, FlagKept
<1>6. Config!Has(Config!Written(S), <<"SourceSelectionCriteria">>)
        <=> r.source_selection_criteria # ""
  <2> DEFINE criteria == Config!Element(<<"SourceSelectionCriteria">>,
                       r.source_selection_criteria)
             sse == Config!Element(
                       <<"SourceSelectionCriteria", "SseKmsEncryptedObjects", "Status">>,
                       Config!When(r.source_selection_criteria,
                                   Config!StatusXML(r.sse_kms_status)))
  <2>1. Below(O, <<"SourceSelectionCriteria">>) = {criteria, sse}
    BY DEF Below, OtherElements, Config!Element, Config!IsPrefix
  <2>2. Below(S, <<"SourceSelectionCriteria">>) = Below(O, <<"SourceSelectionCriteria">>)
    <3> HIDE DEF S, O
    <3> QED BY <1>1 DEF Below, Config!IsPrefix
  <2>3. /\ criteria[2] = r.source_selection_criteria
        /\ sse[2] = Config!When(r.source_selection_criteria, Config!StatusXML(r.sse_kms_status))
    BY DEF Config!Element
  <2> HIDE DEF S, O, criteria, sse
  <2>4. Config!Has(Config!Written(S), <<"SourceSelectionCriteria">>)
          <=> \/ r.source_selection_criteria # ""
              \/ Config!When(r.source_selection_criteria, Config!StatusXML(r.sse_kms_status)) # ""
    BY <2>1, <2>2, <2>3, HasIs
  <2> QED BY <2>4 DEF Config!When
<1>7. Config!Has(Config!Written(S), <<"SourceSelectionCriteria", "SseKmsEncryptedObjects">>)
        <=> r.source_selection_criteria # "" /\ r.sse_kms_status # ""
  <2> DEFINE sse == Config!Element(
                       <<"SourceSelectionCriteria", "SseKmsEncryptedObjects", "Status">>,
                       Config!When(r.source_selection_criteria,
                                   Config!StatusXML(r.sse_kms_status)))
  <2>1. Below(O, <<"SourceSelectionCriteria", "SseKmsEncryptedObjects">>) = {sse, sse}
    BY DEF Below, OtherElements, Config!Element, Config!IsPrefix
  <2>2. Below(S, <<"SourceSelectionCriteria", "SseKmsEncryptedObjects">>)
          = Below(O, <<"SourceSelectionCriteria", "SseKmsEncryptedObjects">>)
    <3> HIDE DEF S, O
    <3> QED BY <1>1 DEF Below, Config!IsPrefix
  <2>3. sse[2] = Config!When(r.source_selection_criteria, Config!StatusXML(r.sse_kms_status))
    BY DEF Config!Element
  <2> HIDE DEF S, O, sse
  <2>4. Config!Has(Config!Written(S), <<"SourceSelectionCriteria", "SseKmsEncryptedObjects">>)
          <=> Config!When(r.source_selection_criteria, Config!StatusXML(r.sse_kms_status)) # ""
    BY <2>1, <2>2, <2>3, HasIs
  <2> QED BY <2>4, <1>2, FlagKept DEF Config!When
<1> QED BY <1>3, <1>4, <1>5, <1>6, <1>7

LEMMA DestinationRead ==
  ASSUME NEW r \in Config!ReplicationRules
  PROVE  Config!ReadDestination(Config!Written(Config!ReplicationElements(r)))
           = Config!DestinationKept(r.destination)
<1> DEFINE d == r.destination
           S == Config!ReplicationElements(r)
           doc == Config!Written(S)
           read == Config!ReadDestination(doc)
           kept == Config!DestinationKept(d)
<1>1. OneText(S) /\ Config!DestinationXML(d) \subseteq S
  BY ReplicationParts, ReplicationDocument
<1>2. /\ Config!Text(doc, <<"Destination", "Bucket">>) = d.bucket_arn
      /\ Config!Text(doc, <<"Destination", "AccessControlTranslation", "Owner">>)
           = d.access_control_owner
      /\ Config!Text(doc, <<"Destination", "Account">>) = d.account
      /\ Config!Text(doc, <<"Destination", "EncryptionConfiguration", "ReplicaKmsKeyID">>)
           = Config!When(d.encryption_config, d.replica_kms_key_id)
      /\ Config!Text(doc, <<"Destination", "Metrics", "EventThreshold", "Minutes">>)
           = Config!When(d.metrics, d.event_threshold_minutes)
      /\ Config!Text(doc, <<"Destination", "Metrics", "EventThreshold", "Status">>)
           = Config!StatusXML(d.metrics)
      /\ Config!Text(doc, <<"Destination", "ReplicationTime", "Status">>)
           = Config!StatusXML(d.replication_time)
      /\ Config!Text(doc, <<"Destination", "StorageClass">>) = d.storage_class
  BY <1>1, TextIs DEF Config!DestinationXML
<1>3. Config!Text(doc, <<"Destination", "ReplicationTime", "Time">>) = ""
  <2>1. \A e \in Config!DestinationXML(d) : e[1] # <<"Destination", "ReplicationTime", "Time">>
    BY DEF Config!DestinationXML, Config!Element
  <2>2. \A e \in S \ Config!DestinationXML(d) : e[1][1] # "Destination"
    BY ReplicationParts
  <2>3. \A e \in S : e[1] # <<"Destination", "ReplicationTime", "Time">>
    BY <2>1, <2>2
  <2> QED BY <2>3, TextIsNot
<1>4. /\ Config!Has(doc, <<"Destination", "EncryptionConfiguration">>)
           <=> d.encryption_config # ""
      /\ Config!Has(doc, <<"Destination", "Metrics">>) <=> d.metrics # ""
      /\ Config!Has(doc, <<"Destination", "ReplicationTime">>) <=> d.replication_time # ""
  BY DestinationContainers
<1>5. /\ d \in Config!Destinations
      /\ d.metrics # "" => Config!IsEnabled(Config!StatusXML(d.metrics)) = d.metrics
      /\ d.replication_time # ""
           => Config!IsEnabled(Config!StatusXML(d.replication_time)) = d.replication_time
  BY FlagKept DEF Config!ReplicationRules, Config!Destinations
<1> HIDE DEF d, doc, S
<1>6. /\ DOMAIN read = {"bucket_arn", "access_control_owner", "account", "encryption_config",
           "replica_kms_key_id", "metrics", "event_threshold_minutes", "replication_time",
           "time_minutes", "storage_class"}
      /\ read = [x \in DOMAIN read |-> read[x]]
  BY DEF Config!ReadDestination
<1>7. DOMAIN kept = DOMAIN read /\ kept = [x \in DOMAIN kept |-> kept[x]]
  BY <1>5 DEF Config!ReadDestination, Config!DestinationKept, Config!Destinations
<1>8. /\ read.bucket_arn = kept.bucket_arn
      /\ read.access_control_owner = kept.access_control_owner
      /\ read.account = kept.account
      /\ read.replica_kms_key_id = kept.replica_kms_key_id
      /\ read.event_threshold_minutes = kept.event_threshold_minutes
      /\ read.time_minutes = kept.time_minutes
      /\ read.storage_class = kept.storage_class
  BY <1>2, <1>3, <1>5 DEF Config!ReadDestination, Config!DestinationKept, Config!Destinations
<1>9. /\ read.encryption_config = kept.encryption_config
      /\ read.metrics = kept.metrics
      /\ read.replication_time = kept.replication_time
  BY <1>2, <1>4, <1>5 DEF Config!ReadDestination, Config!DestinationKept, Config!Destinations,
     Config!EnabledPart, Config!OptionalStatus
<1> HIDE DEF read, kept
<1>10. read = kept
  BY <1>6, <1>7, <1>8, <1>9
<1> QED BY <1>10 DEF read, kept, doc, S, d

\* A filter that counts as none is not written.
LEMMA ReplicationFilterRead ==
  ASSUME NEW r \in Config!ReplicationRules
  PROVE  Config!ReadFilter(Config!Written(Config!ReplicationElements(r)))
           = IF Config!IsFilter(r.filter) THEN Config!FilterKept(r.filter) ELSE Config!NoFilter
<1> DEFINE S == Config!ReplicationElements(r)
           doc == Config!Written(S)
<1>1. OneText(S) /\ \A e \in S : e[1][1] # "And"
  BY ReplicationDocument, ReplicationParts
<1>2. CASE Config!IsFilter(r.filter)
  <2>1. r.filter \in Config!Filters /\ Config!FilterXML(r.filter) \subseteq S
    BY <1>2 DEF Config!ReplicationRules, Config!ReplicationElements
  <2>2. \A e \in S : e[1] # <<"And", "Tag">>
    BY <1>1
  <2> QED BY <1>1, <1>2, <2>1, <2>2, FilterRead
<1>3. CASE ~Config!IsFilter(r.filter)
  <2>1. \A e \in S : e[1][1] \notin {"Filter", "And"}
    BY <1>1, <1>3, ReplicationParts DEF FilterElements
  <2>2. \A p \in {<<"Filter", "And", "Prefix">>, <<"Filter", "Prefix">>, <<"And", "Tag">>,
                  <<"Filter", "Tag", "Key">>, <<"Filter", "Tag", "Value">>} :
          \A e \in S : e[1] # p
    BY <2>1
  <2>3. /\ Config!Text(doc, <<"Filter", "And", "Prefix">>) = ""
        /\ Config!Text(doc, <<"And", "Tag">>) = ""
        /\ Config!Text(doc, <<"Filter", "Prefix">>) = ""
        /\ Config!Text(doc, <<"Filter", "Tag", "Key">>) = ""
        /\ Config!Text(doc, <<"Filter", "Tag", "Value">>) = ""
    BY <2>2, TextIsNot
  <2> QED BY <1>3, <2>3 DEF Config!ReadFilter, Config!NoFilter
<1> QED BY <1>2, <1>3

LEMMA ReplicationRead ==
  ASSUME NEW r \in Config!ReplicationRules
  PROVE  Config!ReadReplicationRule(Config!ReplicationRuleXML(r)) = Config!ReplicationKept(r)
<1> DEFINE S == Config!ReplicationElements(r)
           doc == Config!Written(S)
           read == Config!ReadReplicationRule(doc)
           kept == Config!ReplicationKept(r)
<1>1. /\ Config!ReplicationRuleXML(r) = doc
      /\ OneText(S) /\ OtherElements(r) \subseteq S
  BY ReplicationParts, ReplicationDocument
<1>2. /\ Config!Text(doc, <<"DeleteMarkerReplication", "Status">>)
           = Config!StatusXML(r.delete_marker_status)
      /\ Config!Text(doc, <<"ExistingObjectReplication", "Status">>)
           = Config!StatusXML(r.existing_object_status)
      /\ Config!Text(doc, <<"ID">>) = r.id
      /\ Config!Text(doc, <<"Prefix">>) = r.prefix
      /\ Config!Text(doc, <<"Priority">>) = r.priority
      /\ Config!Text(doc, <<"SourceSelectionCriteria", "SseKmsEncryptedObjects", "Status">>)
           = Config!When(r.source_selection_criteria, Config!StatusXML(r.sse_kms_status))
      /\ Config!Text(doc, <<"DeleteReplication", "Status">>) = Config!StatusXML(r.delete_status)
      /\ Config!Text(doc, <<"Status">>) = Config!StatusXML(r.status)
  BY <1>1, TextIs DEF OtherElements
<1>3. /\ Config!Has(doc, <<"DeleteMarkerReplication">>) <=> r.delete_marker_status # ""
      /\ Config!Has(doc, <<"ExistingObjectReplication">>) <=> r.existing_object_status # ""
      /\ Config!Has(doc, <<"SourceSelectionCriteria">>) <=> r.source_selection_criteria # ""
      /\ Config!Has(doc, <<"SourceSelectionCriteria", "SseKmsEncryptedObjects">>)
           <=> r.source_selection_criteria # "" /\ r.sse_kms_status # ""
      /\ Config!Has(doc, <<"DeleteReplication">>) <=> r.delete_status # ""
  BY RuleContainers
<1>4. \A b \in Config!Flags : b # "" => Config!IsEnabled(Config!StatusXML(b)) = b
  BY FlagKept
<1>5. /\ Config!ReadDestination(doc) = Config!DestinationKept(r.destination)
      /\ Config!ReadFilter(doc)
           = IF Config!IsFilter(r.filter) THEN Config!FilterKept(r.filter) ELSE Config!NoFilter
  BY DestinationRead, ReplicationFilterRead
<1> HIDE DEF doc, S
<1>6. /\ DOMAIN read = {"destination", "delete_marker_status", "existing_object_status",
           "filter", "id", "prefix", "priority", "source_selection_criteria",
           "sse_kms_status", "delete_status", "status"}
      /\ read = [x \in DOMAIN read |-> read[x]]
  BY DEF Config!ReadReplicationRule
<1>7. DOMAIN kept = DOMAIN read /\ kept = [x \in DOMAIN kept |-> kept[x]]
  BY DEF Config!ReadReplicationRule, Config!ReplicationKept, Config!ReplicationRules
<1>8. /\ read.destination = kept.destination
      /\ read.filter = kept.filter
      /\ read.id = kept.id /\ read.prefix = kept.prefix /\ read.priority = kept.priority
  BY <1>2, <1>5 DEF Config!ReadReplicationRule, Config!ReplicationKept, Config!ReplicationRules
<1>9. /\ read.delete_marker_status = kept.delete_marker_status
      /\ read.existing_object_status = kept.existing_object_status
      /\ read.delete_status = kept.delete_status
  BY <1>2, <1>3, <1>4 DEF Config!ReadReplicationRule, Config!ReplicationKept,
     Config!ReplicationRules, Config!OptionalStatus
<1>10. /\ read.source_selection_criteria = kept.source_selection_criteria
       /\ read.sse_kms_status = kept.sse_kms_status
  BY <1>2, <1>3, <1>4 DEF Config!ReadReplicationRule, Config!ReplicationKept,
     Config!ReplicationRules, Config!OptionalStatus, Config!EnabledPart, Config!When
<1>11. read.status = kept.status
  BY <1>2, <1>4 DEF Config!ReadReplicationRule, Config!ReplicationKept, Config!ReplicationRules,
     Config!Flags
<1> HIDE DEF read, kept
<1>12. read = kept
  BY <1>6, <1>7, <1>8, <1>9, <1>10, <1>11
<1> QED BY <1>1, <1>12 DEF read, kept

LEMMA ReplicationThrows ==
  ASSUME NEW r \in Config!ReplicationRules
  PROVE  LET d == r.destination
         IN  Config!ReplicationRuleThrows(Config!ReplicationRuleXML(r))
               <=> \/ d.replication_time # ""
                   \/ d.metrics # "" /\ d.event_threshold_minutes = ""
<1> DEFINE d == r.destination
           doc == Config!Written(Config!ReplicationElements(r))
<1>1. Config!ReplicationRuleXML(r) = doc
  BY ReplicationDocument
<1>2. /\ Config!Has(doc, <<"Destination", "Metrics">>) <=> d.metrics # ""
      /\ Config!Has(doc, <<"Destination", "ReplicationTime">>) <=> d.replication_time # ""
  BY DestinationContainers
<1>3. /\ Config!Text(doc, <<"Destination", "Metrics", "EventThreshold", "Minutes">>)
           = Config!When(d.metrics, d.event_threshold_minutes)
      /\ Config!Text(doc, <<"Destination", "ReplicationTime", "Time">>) = ""
  <2>1. Config!ReadDestination(doc) = Config!DestinationKept(d)
    BY DestinationRead
  <2>2. d \in Config!Destinations
    BY DEF Config!ReplicationRules
  <2> HIDE DEF d, doc
  <2> QED
    BY <2>1, <2>2 DEF Config!ReadDestination, Config!DestinationKept, Config!Destinations
<1> HIDE DEF d, doc
<1>4. Config!ReplicationRuleThrows(doc)
        <=> d.replication_time # "" \/ (d.metrics # "" /\ d.event_threshold_minutes = "")
  BY <1>2, <1>3 DEF Config!ReplicationRuleThrows, Config!NoNumber, Config!When
<1> QED BY <1>1, <1>4 DEF d, doc

LEMMA NotificationRead ==
  ASSUME NEW c \in Config!NotificationCommonConfigs
  PROVE  Config!ReadNotificationCommon(Config!NotificationCommonXML(c))
           = Config!NotificationKept(c)
<1> DEFINE S == {Config!Element(<<"Target">>, c.target),
                 Config!Element(<<"Event">>, c.events),
                 Config!Element(<<"Id">>, c.id),
                 Config!Element(<<"Filter", "S3Key", "FilterRule", "prefix">>, c.prefix),
                 Config!Element(<<"Filter", "S3Key", "FilterRule", "suffix">>, c.suffix)}
           doc == Config!Written(S)
           event == Config!Element(<<"Event">>, c.events)
           read == Config!ReadNotificationCommon(doc)
           kept == Config!NotificationKept(c)
<1>1. Config!NotificationCommonXML(c) = doc
  BY DEF Config!NotificationCommonXML
<1>2. OneText(S)
  BY DEF OneText, Config!Element
<1>3. /\ Config!Text(doc, <<"Target">>) = c.target
      /\ Config!Text(doc, <<"Id">>) = c.id
      /\ Config!Text(doc, <<"Filter", "S3Key", "FilterRule", "prefix">>) = c.prefix
      /\ Config!Text(doc, <<"Filter", "S3Key", "FilterRule", "suffix">>) = c.suffix
  BY <1>2, TextIs
<1>4. Config!Has(doc, <<"Event">>) <=> c.events # ""
  <2>1. Below(S, <<"Event">>) = {event, event}
    BY DEF Below, Config!Element, Config!IsPrefix
  <2>2. event[2] = c.events
    BY DEF Config!Element
  <2> HIDE DEF S, event
  <2> QED BY <2>1, <2>2, HasIs
<1> HIDE DEF S, doc
<1>5. /\ DOMAIN read = {"target", "events", "id", "prefix", "suffix"}
      /\ DOMAIN kept = DOMAIN read
      /\ read = [x \in DOMAIN read |-> read[x]] /\ kept = [x \in DOMAIN kept |-> kept[x]]
  BY DEF Config!ReadNotificationCommon, Config!NotificationKept,
     Config!NotificationCommonConfigs
<1>6. /\ read.target = kept.target /\ read.events = kept.events /\ read.id = kept.id
      /\ read.prefix = kept.prefix /\ read.suffix = kept.suffix
  BY <1>3, <1>4 DEF Config!ReadNotificationCommon, Config!NotificationKept,
     Config!NotificationCommonConfigs, Config!When
<1> HIDE DEF read, kept
<1>7. read = kept
  BY <1>5, <1>6
<1> QED BY <1>1, <1>7 DEF read, kept

\* The documents of one or two elements.
LEMMA TwoElements ==
  ASSUME NEW p, NEW q, p # q, NEW v, NEW w
  PROVE  LET doc == Config!Written({Config!Element(p, v), Config!Element(q, w)})
         IN  Config!Text(doc, p) = v /\ Config!Text(doc, q) = w
<1>1. OneText({Config!Element(p, v), Config!Element(q, w)})
  BY DEF OneText, Config!Element
<1> QED BY <1>1, TextIs

LEMMA EncryptionRead ==
  ASSUME NEW x \in [sse_algorithm : STRING, kms_master_key_id : STRING]
  PROVE  Config!ReadEncryption(Config!EncryptionXML(x)) = {x}
<1>1. /\ Config!Text(Config!EncryptionXML(x), <<"SSEAlgorithm">>) = x.sse_algorithm
      /\ Config!Text(Config!EncryptionXML(x), <<"KMSMasterKeyID">>) = x.kms_master_key_id
  BY TwoElements DEF Config!EncryptionXML
<1> QED BY <1>1 DEF Config!ReadEncryption

LEMMA TagsRead ==
  ASSUME NEW x
  PROVE  Config!ReadTags(Config!TaggingXML(x)) = {x}
<1>1. OneText({Config!Element(<<"TagSet", "Tag">>, x)})
  BY DEF OneText, Config!Element
<1> QED BY <1>1, TextIs DEF Config!ReadTags, Config!TaggingXML

LEMMA VersioningRead ==
  ASSUME NEW x \in [status : Config!Flags, mfa_delete : Config!Flags]
  PROVE  Config!ReadVersioning(Config!VersioningXML(x)) = {x}
<1> DEFINE status == Config!Element(<<"Status">>, Config!VersioningStatusXML(x.status))
           mfa == Config!Element(<<"MFADelete">>, Config!StatusXML(x.mfa_delete))
           S == {status, mfa}
           doc == Config!Written(S)
<1>1. /\ Config!Text(doc, <<"Status">>) = Config!VersioningStatusXML(x.status)
      /\ Config!Text(doc, <<"MFADelete">>) = Config!StatusXML(x.mfa_delete)
  BY TwoElements
<1>2. Config!Has(doc, <<"Status">>) <=> x.status # ""
  <2>1. Below(S, <<"Status">>) = {status, status}
    BY DEF Below, Config!Element, Config!IsPrefix
  <2>2. status[2] # "" <=> x.status # ""
    BY DEF Config!Element, Config!VersioningStatusXML, Config!StatusXML
  <2> HIDE DEF S, status
  <2> QED BY <2>1, <2>2, HasIs
<1>3. Config!Has(doc, <<"MFADelete">>) <=> x.mfa_delete # ""
  <2>1. Below(S, <<"MFADelete">>) = {mfa, mfa}
    BY DEF Below, Config!Element, Config!IsPrefix
  <2>2. mfa[2] # "" <=> x.mfa_delete # ""
    BY DEF Config!Element, Config!StatusXML
  <2> HIDE DEF S, mfa
  <2> QED BY <2>1, <2>2, HasIs
<1>4. Config!VersioningXML(x) = doc
  BY DEF Config!VersioningXML
<1> HIDE DEF doc, S
<1>5. /\ Config!OptionalStatus(doc, <<"Status">>, <<"Status">>) = x.status
      /\ Config!OptionalStatus(doc, <<"MFADelete">>, <<"MFADelete">>) = x.mfa_delete
  BY <1>1, <1>2, <1>3 DEF Config!OptionalStatus, Config!IsEnabled, Config!VersioningStatusXML,
     Config!StatusXML, Config!Flags
<1> QED BY <1>4, <1>5 DEF Config!ReadVersioning

LEMMA ThreeTexts ==
  ASSUME NEW p, NEW q, NEW r, p # q, q # r, p # r, NEW u, NEW v, NEW w, NEW S,
         S = {Config!Element(p, u), Config!Element(q, v), Config!Element(r, w)}
  PROVE  OneText(S)
  BY DEF OneText, Config!Element

LEMMA RulePrefix == Config!IsPrefix(<<"Rule">>, <<"Rule", "DefaultRetention", "Mode">>)
  BY DEF Config!IsPrefix

LEMMA HasOne ==
  ASSUME NEW S, NEW e, e \in S, e[2] # "", NEW path, Config!IsPrefix(path, e[1])
  PROVE  Config!Has(Config!Written(S), path)
  BY DEF Config!Has, Config!Written

LEMMA ObjectLockRead ==
  ASSUME NEW x \in [mode : Config!AnyMode, days : STRING, years : STRING],
         Config!IsRetentionModeValid(x.mode) \/ (x.days = "" /\ x.years = "")
  PROVE  Config!ReadObjectLock(Config!ObjectLockXML(x))
           = IF Config!IsRetentionModeValid(x.mode) THEN {x}
             ELSE {[x EXCEPT !.mode = m] : m \in Config!AnyMode}
<1>1. CASE Config!IsRetentionModeValid(x.mode)
  <2> DEFINE doc == Config!ObjectLockXML(x)
  <2>1. x.mode # ""
    BY <1>1 DEF Config!IsRetentionModeValid, Config!RetentionModes
  <2>2. /\ Config!Text(doc, <<"Rule", "DefaultRetention", "Mode">>) = x.mode
        /\ Config!Text(doc, <<"Rule", "DefaultRetention", "Days">>) = x.days
        /\ Config!Text(doc, <<"Rule", "DefaultRetention", "Years">>) = x.years
        /\ Config!Has(doc, <<"Rule">>)
    <3> DEFINE p == <<"Rule", "DefaultRetention", "Mode">>
               q == <<"Rule", "DefaultRetention", "Days">>
               r == <<"Rule", "DefaultRetention", "Years">>
               e == <<p, x.mode>>
               S == {Config!Element(p, x.mode), Config!Element(q, x.days),
                     Config!Element(r, x.years)}
    <3>1. doc = Config!Written(S)
      BY <1>1 DEF Config!ObjectLockXML
    <3>2. p # q /\ q # r /\ p # r
      OBVIOUS
    <3>3. Config!IsPrefix(<<"Rule">>, p)
      BY RulePrefix
    <3>4. e \in S /\ e[2] = x.mode /\ e[1] = p
      BY DEF Config!Element
    <3> HIDE DEF doc, p, q, r
    <3>5. S = {Config!Element(p, x.mode), Config!Element(q, x.days),
               Config!Element(r, x.years)}
      OBVIOUS
    <3>6. /\ Config!Element(p, x.mode) \in S
          /\ Config!Element(q, x.days) \in S
          /\ Config!Element(r, x.years) \in S
      OBVIOUS
    <3> HIDE DEF e, S
    <3>7. OneText(S)
      BY <3>2, <3>5, ThreeTexts
    <3>8. /\ Config!Text(doc, p) = x.mode
          /\ Config!Text(doc, q) = x.days
          /\ Config!Text(doc, r) = x.years
      BY <3>1, <3>7, <3>6, TextIs
    <3>9. Config!Has(doc, <<"Rule">>)
      BY <2>1, <3>1, <3>4, <3>3, HasOne
    <3> QED BY <3>8, <3>9 DEF p, q, r
  <2> HIDE DEF doc
  <2>3. Config!ReadObjectLock(doc) = {x}
    BY <2>2 DEF Config!ReadObjectLock
  <2> QED BY <1>1, <2>3 DEF doc
<1>2. CASE ~Config!IsRetentionModeValid(x.mode)
  <2>1. Config!ReadObjectLock(Config!ObjectLockXML(x))
          = {[mode |-> m, days |-> "", years |-> ""] : m \in Config!AnyMode}
    BY <1>2 DEF Config!ObjectLockXML, Config!ReadObjectLock, Config!Has
  <2>2. ASSUME NEW m
        PROVE  [x EXCEPT !.mode = m] = [mode |-> m, days |-> "", years |-> ""]
    <3> DEFINE k == [x EXCEPT !.mode = m]
               l == [mode |-> m, days |-> "", years |-> ""]
    <3>1. /\ DOMAIN k = {"mode", "days", "years"} /\ DOMAIN l = {"mode", "days", "years"}
          /\ k = [f \in DOMAIN k |-> k[f]] /\ l = [f \in DOMAIN l |-> l[f]]
      OBVIOUS
    <3>2. k["mode"] = l["mode"] /\ k["days"] = l["days"] /\ k["years"] = l["years"]
      BY <1>2
    <3> HIDE DEF k, l
    <3>3. k = l
      BY <3>1, <3>2
    <3> QED BY <3>3 DEF k, l
  <2>3. {[mode |-> m, days |-> "", years |-> ""] : m \in Config!AnyMode}
          = {[x EXCEPT !.mode = m] : m \in Config!AnyMode}
    <3> DEFINE k(m) == [x EXCEPT !.mode = m]
               l(m) == [mode |-> m, days |-> "", years |-> ""]
    <3>1. ASSUME NEW m PROVE k(m) = l(m)
      BY <2>2
    <3> HIDE DEF k, l
    <3>2. {l(m) : m \in Config!AnyMode} = {k(m) : m \in Config!AnyMode}
      BY <3>1
    <3> QED BY <3>2 DEF k, l
  <2> QED BY <1>2, <2>1, <2>3
<1> QED BY <1>1, <1>2

LEMMA RetentionRead ==
  ASSUME NEW x \in [mode : Config!AnyMode, until : Config!Times]
  PROVE  Config!ReadRetention(Config!RetentionXML(x))
           = {[x EXCEPT !.until = Config!TimeKept(@)]}
<1> DEFINE text == Config!ToISO8601UTC(x.until)
           doc == {Config!Element(<<"Mode">>, x.mode),
                   Config!Element(<<"RetainUntilDate">>, text)}
<1>1. /\ Config!Text(doc, <<"Mode">>) = x.mode
      /\ Config!Text(doc, <<"RetainUntilDate">>) = text
  <2> HIDE DEF text
  <2> DEFINE a == <<<<"Mode">>, x.mode>>
             b == <<<<"RetainUntilDate">>, text>>
  <2>1. doc = {a, b} /\ a[1] = <<"Mode">> /\ b[1] = <<"RetainUntilDate">> /\ a[1] # b[1]
        /\ a[2] = x.mode /\ b[2] = text
    BY DEF Config!Element
  <2> HIDE DEF a, b, doc
  <2>2. (CHOOSE e \in doc : e[1] = <<"Mode">>) = a
    BY <2>1
  <2>3. (CHOOSE e \in doc : e[1] = <<"RetainUntilDate">>) = b
    BY <2>1
  <2> QED BY <2>1, <2>2, <2>3 DEF Config!Text
<1>2. x.until \in Config!Times
  OBVIOUS
<1>3. Config!FromISO8601UTC(text) = Config!TimeKept(x.until)
  BY <1>2, TimeTrip
<1>4. [x EXCEPT !.until = Config!TimeKept(@)]
        = [mode |-> x.mode, until |-> Config!TimeKept(x.until)]
  OBVIOUS
<1>5. Config!RetentionXML(x) = doc
  BY DEF Config!RetentionXML
<1> HIDE DEF doc, text
<1>6. Config!ReadRetention(doc) = {[mode |-> x.mode, until |-> Config!TimeKept(x.until)]}
  BY <1>1, <1>3 DEF Config!ReadRetention
<1> QED BY <1>4, <1>5, <1>6

LEMMA LegalHoldRead ==
  ASSUME NEW x \in {"ON", "OFF"}
  PROVE  Config!ReadLegalHold(Config!LegalHoldXML(x)) = {x}
<1> DEFINE e == <<<<"Status">>, x>>
<1>1. e[1] = <<"Status">> /\ e[2] = x /\ Config!LegalHoldXML(x) = {e}
  BY DEF Config!LegalHoldXML, Config!Element
<1> HIDE DEF e
<1>2. (CHOOSE d \in {e} : d[1] = <<"Status">>) = e
  BY <1>1
<1>3. Config!Text({e}, <<"Status">>) = x
  BY <1>1, <1>2 DEF Config!Text
<1> QED BY <1>1, <1>3 DEF Config!ReadLegalHold

\* What callers may set, of every kind: what passes Validate.
Values ==
  CASE kind = "encryption" -> [sse_algorithm : STRING, kms_master_key_id : STRING]
    [] kind = "lifecycle" -> Seq(Config!LifecycleRules)
    [] kind = "notification" ->
         [Config!NotificationLists -> Seq(Config!NotificationCommonConfigs)]
    [] kind = "objectLock" ->
         {x \in [mode : Config!AnyMode, days : STRING, years : STRING] :
            Config!IsRetentionModeValid(x.mode) \/ (x.days = "" /\ x.years = "")}
    [] kind \in {"policy", "tags", "objectTags"} -> STRING
    [] kind = "replication" -> [role : STRING, rules : Seq(Config!ReplicationRules)]
    [] kind = "versioning" -> [status : Config!Flags, mfa_delete : Config!Flags]
    [] kind = "legalHold" -> {"ON", "OFF"}
    [] kind = "retention" -> [mode : Config!AnyMode, until : Config!Times]

LEMMA LifecycleTrip ==
  ASSUME NEW x \in Seq(Config!LifecycleRules)
  PROVE  Config!ReadLifecycle(Config!LifecycleXML(x))
           = IF \E i \in DOMAIN x : /\ x[i].noncurrent_transition_class # ""
                                    /\ x[i].noncurrent_transition_days = ""
             THEN {} ELSE {[i \in DOMAIN x |-> Config!LifecycleKept(x[i])]}
<1> DEFINE doc == Config!LifecycleXML(x)
           read == [i \in DOMAIN doc |-> Config!ReadLifecycleRule(doc[i])]
           kept == [i \in DOMAIN x |-> Config!LifecycleKept(x[i])]
<1>1. \A i \in DOMAIN x : x[i] \in Config!LifecycleRules
  OBVIOUS
<1>2. DOMAIN doc = DOMAIN x /\ \A i \in DOMAIN x : doc[i] = Config!LifecycleRuleXML(x[i])
  BY DEF Config!LifecycleXML
<1> HIDE DEF doc
<1>3. \A i \in DOMAIN x :
        /\ Config!ReadLifecycleRule(doc[i]) = Config!LifecycleKept(x[i])
        /\ Config!LifecycleRuleThrows(doc[i])
             <=> x[i].noncurrent_transition_class # "" /\ x[i].noncurrent_transition_days = ""
  BY <1>1, <1>2, LifecycleRead, LifecycleThrows
<1>4. read = kept
  BY <1>2, <1>3
<1> HIDE DEF read, kept
<1>5. Config!ReadLifecycle(doc)
        = IF \E i \in DOMAIN doc : Config!LifecycleRuleThrows(doc[i]) THEN {} ELSE {read}
  BY DEF Config!ReadLifecycle, read
<1> QED BY <1>2, <1>3, <1>4, <1>5 DEF doc, kept

LEMMA ReplicationTrip ==
  ASSUME NEW x \in [role : STRING, rules : Seq(Config!ReplicationRules)]
  PROVE  Config!ReadReplication(Config!ReplicationXML(x))
           = IF \E i \in DOMAIN x.rules :
                  \/ x.rules[i].destination.replication_time # ""
                  \/ x.rules[i].destination.metrics # ""
                     /\ x.rules[i].destination.event_threshold_minutes = ""
             THEN {} ELSE {[x EXCEPT !.rules = [i \in DOMAIN @ |-> Config!ReplicationKept(@[i])]]}
<1> DEFINE doc == Config!ReplicationXML(x)
           read == [i \in DOMAIN doc.rules |-> Config!ReadReplicationRule(doc.rules[i])]
           kept == [i \in DOMAIN x.rules |-> Config!ReplicationKept(x.rules[i])]
<1>1. \A i \in DOMAIN x.rules : x.rules[i] \in Config!ReplicationRules
  OBVIOUS
<1>2. /\ doc.role = x.role
      /\ DOMAIN doc.rules = DOMAIN x.rules
      /\ \A i \in DOMAIN x.rules : doc.rules[i] = Config!ReplicationRuleXML(x.rules[i])
  BY DEF Config!ReplicationXML
<1> HIDE DEF doc
<1>3. \A i \in DOMAIN x.rules :
        /\ Config!ReadReplicationRule(doc.rules[i]) = Config!ReplicationKept(x.rules[i])
        /\ Config!ReplicationRuleThrows(doc.rules[i])
             <=> \/ x.rules[i].destination.replication_time # ""
                 \/ x.rules[i].destination.metrics # ""
                    /\ x.rules[i].destination.event_threshold_minutes = ""
  BY <1>1, <1>2, ReplicationRead, ReplicationThrows
<1>4. read = kept
  BY <1>2, <1>3
<1>5. [x EXCEPT !.rules = [i \in DOMAIN @ |-> Config!ReplicationKept(@[i])]]
        = [role |-> x.role, rules |-> kept]
  <2> HIDE DEF kept
  <2> DEFINE k == [x EXCEPT !.rules = kept]
             l == [role |-> x.role, rules |-> kept]
  <2>1. /\ DOMAIN k = {"role", "rules"} /\ DOMAIN l = {"role", "rules"}
        /\ k = [f \in DOMAIN k |-> k[f]] /\ l = [f \in DOMAIN l |-> l[f]]
    OBVIOUS
  <2>2. k["role"] = l["role"] /\ k["rules"] = l["rules"]
    OBVIOUS
  <2>3. k = l
    <3> HIDE DEF k, l
    <3> QED BY <2>1, <2>2
  <2> QED BY <2>3 DEF k, l, kept
<1> HIDE DEF read, kept
<1>6. Config!ReadReplication(doc)
        = IF \E i \in DOMAIN doc.rules : Config!ReplicationRuleThrows(doc.rules[i]) THEN {}
          ELSE {[role |-> doc.role, rules |-> read]}
  BY DEF Config!ReadReplication, read
<1> QED BY <1>2, <1>3, <1>4, <1>5, <1>6 DEF doc

LEMMA NotificationTrip ==
  ASSUME NEW x \in [Config!NotificationLists -> Seq(Config!NotificationCommonConfigs)]
  PROVE  Config!ReadNotification(Config!NotificationXML(x))
           = {[list \in Config!NotificationLists |->
                 [i \in DOMAIN x[list] |-> Config!NotificationKept(x[list][i])]]}
<1> DEFINE doc == Config!NotificationXML(x)
<1>1. ASSUME NEW list \in Config!NotificationLists
      PROVE  [i \in DOMAIN doc[list] |-> Config!ReadNotificationCommon(doc[list][i])]
               = [i \in DOMAIN x[list] |-> Config!NotificationKept(x[list][i])]
  <2>1. \A i \in DOMAIN x[list] : x[list][i] \in Config!NotificationCommonConfigs
    OBVIOUS
  <2>2. /\ DOMAIN doc[list] = DOMAIN x[list]
        /\ \A i \in DOMAIN x[list] : doc[list][i] = Config!NotificationCommonXML(x[list][i])
    BY DEF Config!NotificationXML
  <2> HIDE DEF doc
  <2> QED BY <2>1, <2>2, NotificationRead
<1> HIDE DEF doc
<1>2. [list \in Config!NotificationLists |->
         [i \in DOMAIN doc[list] |-> Config!ReadNotificationCommon(doc[list][i])]]
        = [list \in Config!NotificationLists |->
             [i \in DOMAIN x[list] |-> Config!NotificationKept(x[list][i])]]
  BY <1>1
<1> QED BY <1>2 DEF Config!ReadNotification, doc

\* What was read of the document that a value was written to.
LEMMA RoundTrip ==
  ASSUME kind \in Config!Kinds, NEW x \in Values
  PROVE  /\ Config!Read(Config!ToXML(x)) \subseteq Config!Reads(x)
         /\ Config!Read(Config!ToXML(x)) = {} => Config!Unreadable(x)
<1> USE DEF Config!Read, Config!ToXML, Config!Reads, Config!Unreadable, Values
<1>1. CASE kind = "encryption"
  BY <1>1, EncryptionRead
<1>2. CASE kind = "lifecycle"
  <2> x \in Seq(Config!LifecycleRules)
    BY <1>2
  <2> DEFINE kept == [i \in DOMAIN x |-> Config!LifecycleKept(x[i])]
             lost == \E i \in DOMAIN x : /\ x[i].noncurrent_transition_class # ""
                                         /\ x[i].noncurrent_transition_days = ""
  <2>1. Config!ReadLifecycle(Config!LifecycleXML(x)) = IF lost THEN {} ELSE {kept}
    BY LifecycleTrip
  <2>2. /\ Config!Read(Config!ToXML(x)) = Config!ReadLifecycle(Config!LifecycleXML(x))
        /\ Config!Reads(x) = {kept}
        /\ Config!Unreadable(x) <=> lost
    BY <1>2
  <2> HIDE DEF kept, lost, Config!Read, Config!ToXML, Config!Reads, Config!Unreadable, Values
  <2> QED BY <2>1, <2>2
<1>3. CASE kind = "notification"
  <2> x \in [Config!NotificationLists -> Seq(Config!NotificationCommonConfigs)]
    BY <1>3
  <2> QED BY <1>3, NotificationTrip
<1>4. CASE kind = "objectLock"
  <2> /\ x \in [mode : Config!AnyMode, days : STRING, years : STRING]
      /\ Config!IsRetentionModeValid(x.mode) \/ (x.days = "" /\ x.years = "")
    BY <1>4
  <2> DEFINE unset == {[x EXCEPT !.mode = m] : m \in Config!AnyMode}
  <2>1. Config!ReadObjectLock(Config!ObjectLockXML(x))
          = IF Config!IsRetentionModeValid(x.mode) THEN {x} ELSE unset
    BY ObjectLockRead
  <2>2. unset # {}
    <3>1. "garbage" \in Config!AnyMode
      BY DEF Config!AnyMode
    <3>2. [x EXCEPT !.mode = "garbage"] \in unset
      BY <3>1
    <3> QED BY <3>2
  <2>3. /\ Config!Read(Config!ToXML(x)) = Config!ReadObjectLock(Config!ObjectLockXML(x))
        /\ Config!Reads(x) = IF Config!IsRetentionModeValid(x.mode) THEN {x} ELSE unset
    BY <1>4
  <2> HIDE DEF unset, Config!Read, Config!ToXML, Config!Reads, Config!Unreadable, Values
  <2>4. Config!Read(Config!ToXML(x)) = Config!Reads(x)
    BY <2>1, <2>3
  <2>5. Config!Read(Config!ToXML(x)) # {}
    <3>1. CASE Config!IsRetentionModeValid(x.mode)
      BY <2>1, <2>3, <3>1
    <3>2. CASE ~Config!IsRetentionModeValid(x.mode)
      BY <2>1, <2>2, <2>3, <3>2
    <3> QED BY <3>1, <3>2
  <2> QED BY <2>4, <2>5
<1>5. CASE kind = "policy"
  BY <1>5
<1>6. CASE kind \in {"tags", "objectTags"}
  BY <1>6, TagsRead
<1>7. CASE kind = "replication"
  <2> x \in [role : STRING, rules : Seq(Config!ReplicationRules)]
    BY <1>7
  <2> DEFINE kept == [x EXCEPT !.rules = [i \in DOMAIN @ |-> Config!ReplicationKept(@[i])]]
             lost == \E i \in DOMAIN x.rules :
                       \/ x.rules[i].destination.replication_time # ""
                       \/ x.rules[i].destination.metrics # ""
                          /\ x.rules[i].destination.event_threshold_minutes = ""
  <2>1. Config!ReadReplication(Config!ReplicationXML(x)) = IF lost THEN {} ELSE {kept}
    BY ReplicationTrip
  <2>2. /\ Config!Read(Config!ToXML(x)) = Config!ReadReplication(Config!ReplicationXML(x))
        /\ Config!Reads(x) = {kept}
        /\ Config!Unreadable(x) <=> lost
    BY <1>7
  <2> HIDE DEF kept, lost, Config!Read, Config!ToXML, Config!Reads, Config!Unreadable, Values
  <2> QED BY <2>1, <2>2
<1>8. CASE kind = "versioning"
  BY <1>8, VersioningRead
<1>9. CASE kind = "legalHold"
  BY <1>9, LegalHoldRead
<1>10. CASE kind = "retention"
  <2>1. Config!ReadRetention(Config!RetentionXML(x))
          = {[x EXCEPT !.until = Config!TimeKept(@)]}
    BY <1>10, RetentionRead
  <2>2. /\ Config!Read(Config!ToXML(x)) = Config!ReadRetention(Config!RetentionXML(x))
        /\ Config!Reads(x) = {[x EXCEPT !.until = Config!TimeKept(@)]}
    BY <1>10
  <2> QED BY <2>1, <2>2
<1> QED BY <1>1, <1>2, <1>3, <1>4, <1>5, <1>6, <1>7, <1>8, <1>9, <1>10 DEF Config!Kinds

\* What is read when nothing was ever set.
LEMMA EmptyRead ==
  ASSUME kind \in Config!Kinds, Config!EmptyDocument # <<>>
  PROVE  /\ Config!Read(Config!EmptyDocument[1]) \subseteq Config!ReadsAbsent
         /\ Config!Read(Config!EmptyDocument[1]) # {}
<1>1. CASE kind = "notification"
  <2> DEFINE none == Config!NoNotification
  <2>1. none \in [Config!NotificationLists -> Seq(Config!NotificationCommonConfigs)]
    BY DEF Config!NoNotification
  <2>2. \A list \in Config!NotificationLists :
          [i \in DOMAIN none[list] |-> Config!NotificationKept(none[list][i])] = none[list]
    BY DEF Config!NoNotification
  <2>3. [list \in Config!NotificationLists |->
           [i \in DOMAIN none[list] |-> Config!NotificationKept(none[list][i])]] = none
    BY <2>1, <2>2
  <2>4. Config!EmptyDocument[1] = Config!NotificationXML(none)
    BY <1>1 DEF Config!EmptyDocument
  <2>5. Config!ReadsAbsent = {none}
    BY <1>1 DEF Config!ReadsAbsent
  <2> HIDE DEF none
  <2>6. Config!ReadNotification(Config!NotificationXML(none)) = {none}
    BY <2>1, <2>3, NotificationTrip
  <2> QED BY <1>1, <2>4, <2>5, <2>6 DEF Config!Read
<1>2. CASE kind = "versioning"
  <2>1. Config!EmptyDocument[1] = {}
    BY <1>2 DEF Config!EmptyDocument
  <2>2. Config!ReadVersioning({}) = {[status |-> "", mfa_delete |-> ""]}
    BY DEF Config!ReadVersioning, Config!OptionalStatus, Config!Has
  <2> QED BY <1>2, <2>1, <2>2 DEF Config!Read, Config!ReadsAbsent
<1>3. CASE kind = "objectTags"
  <2>1. Config!EmptyDocument[1] = {}
    BY <1>3 DEF Config!EmptyDocument
  <2>2. Config!ReadTags({}) = {""}
    BY DEF Config!ReadTags, Config!Text
  <2> QED BY <1>3, <2>1, <2>2 DEF Config!Read, Config!ReadsAbsent
<1> QED BY <1>1, <1>2, <1>3 DEF Config!EmptyDocument

----------------------------------------------------------------------------
(* The configurations: what a call reads the server had while it ran.       *)

\* <<>>, or a value that passes Validate.
IsValue(g) == g = <<>> \/ g[1] \in Values

\* What the server has while a value is set.
DocumentOf(g) == IF g = <<>> THEN Config!EmptyDocument ELSE <<Config!ToXML(g[1])>>

\* A reading call forgives the error that says that there is nothing, and only
\* where a default stands for nothing.
Reading(c) ==
  /\ c.verb \in {"GET", "HEAD", "PUT", "DELETE"}
  /\ c.verb = "GET" => /\ c.forgiven \subseteq {Config!NotFoundCode}
                       /\ c.forgiven # {} => kind \in {"lifecycle", "legalHold", "retention"}
  /\ c.verb = "HEAD" => c.forgiven = {} /\ kind \in {"legalHold", "retention"}

\* The server's document was written from the value that was given to it.
ServerInv ==
  /\ config = IF given = <<>> THEN <<>> ELSE <<Config!ToXML(given[1])>>
  /\ IsValue(given)

\* The answer to a reading call is what the server had at some moment of the call.
AnswerRead(t) ==
  pc[t] = "reply" /\ call[t].verb \in {"GET", "HEAD"} =>
    /\ reply[t].code = "ok" =>
         /\ \E g \in seen[t] : reply[t].data = DocumentOf(g)
         /\ call[t].verb = "GET" => reply[t].data # <<>>
    /\ reply[t].code = Config!NotFoundCode => <<>> \in seen[t]

\* What ReadsBack says of one thread, of what a call c returned as r.
Back(c, r, values) ==
  /\ r.status = "ok" /\ c.verb \in {"GET", "HEAD"} =>
       \E g \in values :
         IF g = <<>> THEN c.verb = "HEAD" \/ r.value[1] \in Config!ReadsAbsent
         ELSE r.value[1] \in Config!Reads(g[1])
  /\ r.status = "thrown" => \E g \in values : g # <<>> /\ Config!Unreadable(g[1])

ThreadInv(t) ==
  /\ \A g \in seen[t] : IsValue(g)
  /\ Reading(call[t])
  /\ call[t].valid => IsValue(call[t].x)
  /\ pc[t] \in {"sending", "reply"} => call[t].valid
  /\ AnswerRead(t)
  /\ Back(call[t], result[t], seen[t])

ReadInv == ServerInv /\ \A t \in Threads : ThreadInv(t)

\* Every row of the table sends values that pass Validate.
Sends(f) == (\A x \in f.valid : IsValue(x)) /\ Reading(f)

LEMMA FunctionsSend ==
  ASSUME kind \in Config!Kinds, Config!GivenIsTyped, NEW f \in Config!Functions
  PROVE  Sends(f)
<1>1. ASSUME NEW k, NEW valid, valid \subseteq Values PROVE Sends(Config!Set(k, valid))
  BY <1>1 DEF Config!Set, Config!Row, Sends, Reading, IsValue
<1>2. ASSUME Given[kind] \subseteq Values PROVE Sends(Config!ObjectWriteArgs(kind))
  BY <1>2 DEF Config!ObjectWriteArgs, Sends, Reading, IsValue
<1>3. Sends(Config!Get) /\ Sends(Config!Delete)
  BY DEF Config!Get, Config!Delete, Config!Without, Sends, Reading, IsValue
<1>4. CASE kind = "encryption"
  <2>1. {x \in Given["encryption"] : x.sse_algorithm # ""} \subseteq Values
    BY <1>4 DEF Values, Config!GivenIsTyped
  <2>2. Sends(Config!DeleteBucketEncryption)
    BY DEF Config!DeleteBucketEncryption, Config!Without, Sends, Reading, IsValue
  <2> QED BY <1>1, <1>3, <1>4, <2>1, <2>2 DEF Config!Functions, Config!GetBucketEncryption,
     Config!SetBucketEncryption
<1>5. CASE kind = "lifecycle"
  <2>1. Given["lifecycle"] \subseteq Values
    BY <1>5 DEF Values, Config!GivenIsTyped
  <2>2. Sends(Config!GetBucketLifecycle)
    BY <1>5 DEF Config!GetBucketLifecycle, Config!Without, Config!NotFoundCode, Sends, Reading,
       IsValue
  <2> QED BY <1>1, <1>3, <1>5, <2>1, <2>2 DEF Config!Functions, Config!SetBucketLifecycle,
     Config!DeleteBucketLifecycle
<1>6. CASE kind = "notification"
  <2>1. Given["notification"] \subseteq Values
    BY <1>6 DEF Values, Config!GivenIsTyped
  <2>2. Config!NoNotification \in Values
    BY <1>6 DEF Values, Config!NoNotification
  <2>3. Sends(Config!DeleteBucketNotification)
    BY <2>2 DEF Config!DeleteBucketNotification, Config!Row, Sends, Reading, IsValue
  <2> QED BY <1>1, <1>3, <1>6, <2>1, <2>3 DEF Config!Functions, Config!GetBucketNotification,
     Config!SetBucketNotification
<1>7. CASE kind = "objectLock"
  <2> DEFINE valid == {x \in Given["objectLock"] :
                         IF Config!IsRetentionModeValid(x.mode)
                         THEN (x.days # "") # (x.years # "")
                         ELSE x.days = "" /\ x.years = ""}
  <2>1. valid \subseteq Values
    <3> SUFFICES ASSUME NEW x \in valid PROVE x \in Values
      OBVIOUS
    <3>1. x \in [mode : Config!AnyMode, days : STRING, years : STRING]
      BY DEF Config!GivenIsTyped
    <3>2. Config!IsRetentionModeValid(x.mode) \/ (x.days = "" /\ x.years = "")
      OBVIOUS
    <3> QED BY <1>7, <3>1, <3>2 DEF Values
  <2>2. Sends(Config!SetObjectLockConfig)
    <3> HIDE DEF valid
    <3>1. Sends(Config!Set("objectLock", valid))
      BY <1>1, <2>1
    <3> QED BY <3>1 DEF valid, Config!SetObjectLockConfig
  <2> QED BY <1>3, <1>7, <2>2 DEF Config!Functions, Config!GetObjectLockConfig,
     Config!DeleteObjectLockConfig
<1>8. CASE kind = "policy"
  <2>1. Given["policy"] \ {""} \subseteq Values
    BY <1>8 DEF Values, Config!GivenIsTyped
  <2> QED BY <1>1, <1>3, <1>8, <2>1 DEF Config!Functions, Config!GetBucketPolicy,
     Config!SetBucketPolicy, Config!DeleteBucketPolicy
<1>9. CASE kind = "replication"
  <2>1. Given["replication"] \subseteq Values
    BY <1>9 DEF Values, Config!GivenIsTyped
  <2>2. Sends(Config!DeleteBucketReplication)
    BY DEF Config!DeleteBucketReplication, Config!Without, Sends, Reading, IsValue
  <2> QED BY <1>1, <1>3, <1>9, <2>1, <2>2 DEF Config!Functions, Config!GetBucketReplication,
     Config!SetBucketReplication
<1>10. CASE kind = "tags"
  <2>1. Given["tags"] \ {Config!BadTags} \subseteq Values
    BY <1>10 DEF Values, Config!GivenIsTyped
  <2> QED BY <1>1, <1>3, <1>10, <2>1 DEF Config!Functions, Config!GetBucketTags,
     Config!SetBucketTags, Config!DeleteBucketTags
<1>11. CASE kind = "versioning"
  <2>1. {x \in Given["versioning"] : x.status # ""} \subseteq Values
    BY <1>11 DEF Values, Config!GivenIsTyped
  <2> QED BY <1>1, <1>3, <1>11, <2>1 DEF Config!Functions, Config!GetBucketVersioning,
     Config!SetBucketVersioning
<1>12. CASE kind = "legalHold"
  <2>1. Given[kind] \subseteq Values
    BY <1>12 DEF Values, Config!GivenIsTyped
  <2>2. /\ Sends(Config!EnableObjectLegalHold) /\ Sends(Config!DisableObjectLegalHold)
        /\ Sends(Config!IsObjectLegalHoldEnabled) /\ Sends(Config!StatObject)
    BY <1>12 DEF Config!EnableObjectLegalHold, Config!DisableObjectLegalHold,
       Config!IsObjectLegalHoldEnabled, Config!StatObject, Config!Row, Config!Without,
       Config!NotFoundCode, Sends, Reading, IsValue, Values
  <2> QED BY <1>2, <1>12, <2>1, <2>2 DEF Config!Functions
<1>13. CASE kind = "retention"
  <2>1. Given[kind] \subseteq Values
    BY <1>13 DEF Values, Config!GivenIsTyped
  <2>2. {x \in Given["retention"] : ~Config!IsRetentionModeValid(x.mode)
                                    /\ Config!IsTime(x.until)}
          \subseteq Values
    BY <1>13, <2>1
  <2>3. Sends(Config!GetObjectRetention) /\ Sends(Config!StatObject)
    BY <1>13 DEF Config!GetObjectRetention, Config!StatObject, Config!Without,
       Config!NotFoundCode, Sends, Reading, IsValue
  <2> QED BY <1>1, <1>2, <1>13, <2>1, <2>2, <2>3 DEF Config!Functions, Config!SetObjectRetention
<1>14. CASE kind = "objectTags"
  <2>1. Given[kind] \subseteq Values
    BY <1>14 DEF Values, Config!GivenIsTyped
  <2>2. Given["objectTags"] \ {Config!BadTags} \subseteq Values
    BY <1>14, <2>1
  <2> QED BY <1>1, <1>2, <1>3, <1>14, <2>1, <2>2 DEF Config!Functions, Config!GetObjectTags,
     Config!SetObjectTags, Config!DeleteObjectTags
<1> QED
  BY <1>4, <1>5, <1>6, <1>7, <1>8, <1>9, <1>10, <1>11, <1>12, <1>13, <1>14 DEF Config!Kinds

\* What depends on the kind stays: no step changes it.
LEMMA KindStays ==
  ASSUME kind' = kind
  PROVE  /\ Values' = Values
         /\ Config!ReadsAbsent' = Config!ReadsAbsent
         /\ Config!EmptyDocument' = Config!EmptyDocument
         /\ Config!NotFoundCode' = Config!NotFoundCode
         /\ \A x : Config!Reads(x)' = Config!Reads(x)
         /\ \A x : Config!Unreadable(x)' <=> Config!Unreadable(x)
         /\ \A x : Config!ToXML(x)' = Config!ToXML(x)
<1>1. /\ Values' = Values
      /\ Config!ReadsAbsent' = Config!ReadsAbsent
      /\ Config!EmptyDocument' = Config!EmptyDocument
      /\ Config!NotFoundCode' = Config!NotFoundCode
  BY DEF Values, Config!ReadsAbsent, Config!Default, Config!EmptyDocument, Config!NotFoundCode
<1>2. \A x : Config!Reads(x)' = Config!Reads(x)
  BY DEF Config!Reads
<1>3. \A x : Config!Unreadable(x)' <=> Config!Unreadable(x)
  BY DEF Config!Unreadable
<1>4. \A x : Config!ToXML(x)' = Config!ToXML(x)
  BY DEF Config!ToXML
<1> QED BY <1>1, <1>2, <1>3, <1>4

LEMMA ReadInit ==
  ASSUME Config!Init
  PROVE  ReadInv
  BY DEF Config!Init, Config!Nothing, ReadInv, ServerInv, ThreadInv, IsValue, Reading, AnswerRead,
     Back

\* A thread that a step leaves alone: more may have been seen in its call.
LEMMA ReadAlone ==
  ASSUME NEW t, ThreadInv(t), kind' = kind, pc'[t] = pc[t], call'[t] = call[t],
         reply'[t] = reply[t], result'[t] = result[t], seen[t] \subseteq seen'[t],
         \A g \in seen'[t] : IsValue(g)
  PROVE  ThreadInv(t)'
<1>1. (\A g \in seen[t] : IsValue(g))' /\ Reading(call[t])'
  BY KindStays DEF ThreadInv, IsValue, Reading
<1>2. /\ (call[t].valid => IsValue(call[t].x))'
      /\ (pc[t] \in {"sending", "reply"} => call[t].valid)'
  BY KindStays DEF ThreadInv, IsValue
<1>3. AnswerRead(t)'
  BY KindStays DEF ThreadInv, AnswerRead, DocumentOf
<1>4. Back(call[t], result[t], seen[t])'
  BY KindStays DEF ThreadInv, Back
<1> QED BY <1>1, <1>2, <1>3, <1>4 DEF ThreadInv

\* A step of thread u that leaves the server alone.
LEMMA ReadOthers ==
  ASSUME ReadInv, NEW u \in Threads, ThreadInv(u)', UNCHANGED <<kind, config, given>>,
         \A t \in Threads \ {u} : /\ pc'[t] = pc[t] /\ call'[t] = call[t] /\ reply'[t] = reply[t]
                                  /\ result'[t] = result[t] /\ seen'[t] = seen[t]
  PROVE  ReadInv'
<1>1. ServerInv'
  BY KindStays DEF ReadInv, ServerInv, IsValue
<1>2. ASSUME NEW t \in Threads \ {u} PROVE ThreadInv(t)'
  BY <1>2, ReadAlone DEF ReadInv, ThreadInv
<1> QED BY <1>1, <1>2 DEF ReadInv

LEMMA ReadCall ==
  ASSUME ReadInv, ConfigTypes, Config!GivenIsTyped,
         NEW t \in Threads, NEW f \in Config!Functions, NEW x, Config!Call(t, f, x)
  PROVE  ReadInv'
<1>1. /\ call' = [call EXCEPT ![t] = [verb |-> f.verb, x |-> x, valid |-> x \in f.valid,
                                      forgiven |-> f.forgiven]]
      /\ result' = [result EXCEPT ![t] = Config!Nothing]
      /\ seen' = [seen EXCEPT ![t] = {given}]
      /\ pc' = [pc EXCEPT ![t] = "called"]
      /\ UNCHANGED <<kind, config, given, reply>>
  BY DEF Config!Call, Config!Goto
<1>2. /\ pc'[t] = "called" /\ result'[t].status = "none" /\ seen'[t] = {given}
      /\ call'[t].verb = f.verb /\ call'[t].forgiven = f.forgiven
      /\ call'[t].x = x /\ call'[t].valid = (x \in f.valid)
  BY <1>1 DEF ConfigTypes, Config!Nothing
<1>3. Sends(f)
  BY FunctionsSend DEF ConfigTypes
<1>4. ThreadInv(t)'
  <2>1. (\A g \in seen[t] : IsValue(g))'
    BY <1>1, <1>2, KindStays DEF ReadInv, ServerInv, IsValue
  <2>2. Reading(call[t])'
    BY <1>1, <1>2, <1>3, KindStays DEF Sends, Reading
  <2>3. (call[t].valid => IsValue(call[t].x))'
    BY <1>1, <1>2, <1>3, KindStays DEF Sends, IsValue
  <2>4. AnswerRead(t)' /\ Back(call[t], result[t], seen[t])'
    BY <1>2 DEF AnswerRead, Back
  <2> QED BY <1>2, <2>1, <2>2, <2>3, <2>4 DEF ThreadInv
<1> QED BY <1>1, <1>4, ReadOthers DEF ConfigTypes

LEMMA ReadServe ==
  ASSUME ReadInv, ConfigTypes, NEW t \in Threads, Config!Serve(t)
  PROVE  ReadInv'
<1>1. /\ reply' = [reply EXCEPT ![t] = Config!Answer(call[t])]
      /\ pc' = [pc EXCEPT ![t] = "reply"]
      /\ seen' = [s \in Threads |-> seen[s] \cup {given'}]
      /\ UNCHANGED <<kind, call, result>>
      /\ pc[t] = "sending"
  BY DEF Config!Serve, Config!Goto
<1>2. call[t].valid
  BY <1>1 DEF ReadInv, ThreadInv
<1>3. config' = (IF given' = <<>> THEN <<>> ELSE <<Config!ToXML(given'[1])>>) /\ IsValue(given')
  <2>1. CASE call[t].verb \in {"PUT", "DELETE"}
    BY <1>2, <2>1 DEF Config!Serve, Config!Apply, ReadInv, ThreadInv
  <2>2. CASE call[t].verb \notin {"PUT", "DELETE"}
    BY <2>2 DEF Config!Serve, Config!Apply, ReadInv, ServerInv
  <2> QED BY <2>1, <2>2
<1>4. ServerInv'
  BY <1>1, <1>3, KindStays DEF ServerInv, IsValue
<1>5. ASSUME NEW s \in Threads PROVE \A g \in seen'[s] : IsValue(g)
  BY <1>1, <1>3 DEF ReadInv, ThreadInv
<1>6. ASSUME NEW s \in Threads \ {t} PROVE ThreadInv(s)'
  BY <1>1, <1>5, ReadAlone DEF ReadInv, ConfigTypes
<1>7. ThreadInv(t)'
  <2>1. (\A g \in seen[t] : IsValue(g))'
    BY <1>1, <1>5, KindStays DEF IsValue
  <2>2. /\ Reading(call[t])' /\ (call[t].valid => IsValue(call[t].x))'
        /\ (pc[t] \in {"sending", "reply"} => call[t].valid)'
    BY <1>1, <1>2, KindStays DEF ReadInv, ThreadInv, Reading, IsValue
  <2>3. Back(call[t], result[t], seen[t])'
    <3>1. Back(call[t], result[t], seen[t])
      BY DEF ReadInv, ThreadInv
    <3>2. seen[t] \subseteq seen'[t]
      BY <1>1
    <3> QED BY <1>1, <3>1, <3>2, KindStays DEF Back
  <2>4. call[t].verb \in {"GET", "HEAD"} =>
          /\ reply'[t].code = "ok" =>
               /\ reply'[t].data = DocumentOf(given')
               /\ call[t].verb = "GET" => reply'[t].data # <<>>
          /\ reply'[t].code = Config!NotFoundCode => given' = <<>>
    <3> SUFFICES ASSUME call[t].verb \in {"GET", "HEAD"}
                 PROVE  /\ reply'[t].code = "ok" =>
                             /\ reply'[t].data = DocumentOf(given')
                             /\ call[t].verb = "GET" => reply'[t].data # <<>>
                        /\ reply'[t].code = Config!NotFoundCode => given' = <<>>
      OBVIOUS
    <3>1. UNCHANGED <<config, given>>
      BY DEF Config!Serve, Config!Apply
    <3> DEFINE here == IF config = <<>> THEN Config!EmptyDocument ELSE config
    <3>2. here = DocumentOf(given) /\ (here = <<>> => given = <<>>)
      BY DEF ReadInv, ServerInv, DocumentOf
    <3>3. reply'[t] = IF call[t].verb = "GET" /\ here = <<>>
                        THEN [code |-> Config!NotFoundCode, data |-> here]
                        ELSE [code |-> "ok", data |-> here]
      BY <1>1 DEF Config!Answer, ConfigTypes
    <3>4. Config!NotFoundCode # "ok"
      BY DEF Config!NotFoundCode
    <3> HIDE DEF here
    <3> QED BY <3>1, <3>2, <3>3, <3>4
  <2>5. AnswerRead(t)'
    <3>1. given' \in seen'[t]
      BY <1>1
    <3> QED BY <1>1, <2>4, <3>1, KindStays DEF AnswerRead, DocumentOf
  <2> QED BY <2>1, <2>2, <2>3, <2>5 DEF ThreadInv
<1> QED BY <1>4, <1>6, <1>7 DEF ReadInv

LEMMA ReadRefuse ==
  ASSUME ReadInv, ConfigTypes, NEW t \in Threads, Config!Refuse(t) \/ Config!Lose(t)
  PROVE  ReadInv'
<1>1. PICK r \in {Config!Refusal, Config!Silence} : reply' = [reply EXCEPT ![t] = r]
  BY DEF Config!Refuse, Config!Lose
<1>2. /\ \A s \in Threads \ {t} : pc'[s] = pc[s]
      /\ pc[t] \in {"sending", "reply"}
      /\ UNCHANGED <<kind, config, given, call, result, seen>>
  BY DEF Config!Refuse, Config!Lose, Config!Goto, ConfigTypes
<1>3. reply'[t].code \in {"AccessDenied", "none"}
  BY <1>1 DEF ConfigTypes, Config!Refusal, Config!Silence
<1>4. AnswerRead(t)'
  BY <1>3, <1>2, KindStays DEF AnswerRead, Config!NotFoundCode
<1>5. /\ (\A g \in seen[t] : IsValue(g))' /\ Reading(call[t])'
      /\ (call[t].valid => IsValue(call[t].x))' /\ call'[t].valid
  BY <1>2, KindStays DEF ReadInv, ThreadInv, IsValue, Reading
<1>6. Back(call[t], result[t], seen[t])'
  BY <1>2, KindStays DEF ReadInv, ThreadInv, Back
<1>7. ThreadInv(t)'
  BY <1>4, <1>5, <1>6 DEF ThreadInv
<1> QED BY <1>1, <1>2, <1>7, ReadOthers DEF ConfigTypes

LEMMA ReadReturn ==
  ASSUME ReadInv, ConfigTypes, NEW t \in Threads, NEW status, NEW value,
         Config!Return(t, status, value), UNCHANGED <<kind, config, given, call, reply, seen>>,
         Back(call[t], [status |-> status, value |-> value], seen[t])
  PROVE  ReadInv'
<1>1. result' = [result EXCEPT ![t] = [status |-> status, value |-> value]]
      /\ pc' = [pc EXCEPT ![t] = "idle"]
  BY DEF Config!Return, Config!Goto
<1>2. pc'[t] = "idle" /\ result'[t] = [status |-> status, value |-> value]
  BY <1>1 DEF ConfigTypes
<1>3. Back(call[t], result[t], seen[t])'
  BY <1>2, KindStays DEF Back
<1>4. /\ (\A g \in seen[t] : IsValue(g))' /\ Reading(call[t])'
      /\ (call[t].valid => IsValue(call[t].x))'
  BY KindStays DEF ReadInv, ThreadInv, IsValue, Reading
<1>5. ThreadInv(t)'
  BY <1>2, <1>3, <1>4 DEF ThreadInv, AnswerRead
<1> QED BY <1>1, <1>5, ReadOthers DEF ConfigTypes

\* What a reading call may return for its answer, and when it has nothing to return.
LEMMA WhatIsRead ==
  ASSUME ReadInv, ConfigTypes, NEW t \in Threads, pc[t] = "reply",
         call[t].verb \in {"GET", "HEAD"},
         reply[t].code = "ok" \/ reply[t].code \in call[t].forgiven,
         NEW values,
         values = IF reply[t].code # "ok" THEN Config!Default
                  ELSE IF call[t].verb = "HEAD" THEN Config!ReadHeaders(reply[t].data)
                  ELSE Config!Read(reply[t].data[1])
  PROVE  \E g \in seen[t] :
           /\ IF g = <<>> THEN call[t].verb = "HEAD" \/ values \subseteq Config!ReadsAbsent
              ELSE values \subseteq Config!Reads(g[1])
           /\ values = {} => g # <<>> /\ Config!Unreadable(g[1])
<1>1. /\ Reading(call[t]) /\ AnswerRead(t) /\ \A g \in seen[t] : IsValue(g)
      /\ kind \in Config!Kinds
  BY DEF ReadInv, ThreadInv, ConfigTypes
<1>2. CASE reply[t].code # "ok"
  <2>1. call[t].verb = "GET" /\ reply[t].code = Config!NotFoundCode
        /\ kind \in {"lifecycle", "legalHold", "retention"}
    BY <1>1, <1>2 DEF Reading
  <2>2. <<>> \in seen[t]
    BY <1>1, <2>1 DEF AnswerRead
  <2>3. values = Config!Default /\ values = Config!ReadsAbsent
    BY <1>2, <2>1 DEF Config!ReadsAbsent
  <2>4. values # {}
    <3>1. "garbage" \in Config!AnyMode
      BY DEF Config!AnyMode
    <3>2. CASE kind = "retention"
      <4>1. [mode |-> "garbage", until |-> ""] \in Config!Default
        BY <3>1, <3>2 DEF Config!Default
      <4> QED BY <2>3, <4>1
    <3> QED BY <2>1, <2>3, <3>2 DEF Config!Default
  <2> QED BY <2>2, <2>3, <2>4
<1>3. CASE reply[t].code = "ok"
  <2>1. PICK g \in seen[t] : reply[t].data = DocumentOf(g)
    BY <1>1, <1>3 DEF AnswerRead
  <2>2. CASE g # <<>>
    <3>1. reply[t].data # <<>> /\ reply[t].data[1] = Config!ToXML(g[1])
      BY <2>1, <2>2 DEF DocumentOf
    <3>2. g[1] \in Values
      BY <1>1, <2>2 DEF IsValue
    <3>3. values = Config!Read(Config!ToXML(g[1]))
      <4>1. CASE call[t].verb = "GET"
        BY <1>3, <3>1, <4>1
      <4>2. CASE call[t].verb = "HEAD"
        <5>1. Config!ReadHeaders(reply[t].data) = Config!Read(reply[t].data[1])
          BY <3>1 DEF Config!ReadHeaders
        <5> QED BY <1>3, <3>1, <4>2, <5>1
      <4> QED BY <4>1, <4>2
    <3>4. values \subseteq Config!Reads(g[1]) /\ (values = {} => Config!Unreadable(g[1]))
      BY <1>1, <3>2, <3>3, RoundTrip
    <3> QED BY <2>2, <3>4
  <2>3. CASE g = <<>> /\ call[t].verb = "GET"
    <3>1. Config!EmptyDocument # <<>> /\ values = Config!Read(Config!EmptyDocument[1])
      BY <1>1, <1>3, <2>1, <2>3 DEF AnswerRead, DocumentOf
    <3>2. values \subseteq Config!ReadsAbsent /\ values # {}
      BY <1>1, <3>1, EmptyRead
    <3> QED BY <2>3, <3>2
  <2>4. CASE g = <<>> /\ call[t].verb = "HEAD"
    <3>1. kind \in {"legalHold", "retention"}
      BY <1>1, <2>4 DEF Reading
    <3>2. reply[t].data = <<>>
      BY <2>1, <2>4, <3>1 DEF DocumentOf, Config!EmptyDocument
    <3>3. values = Config!ReadHeaders(<<>>)
      BY <1>3, <2>4, <3>2
    <3>4. values # {}
      <4>1. CASE kind = "legalHold"
        BY <3>3, <4>1 DEF Config!ReadHeaders
      <4>2. CASE kind = "retention"
        <5>1. "garbage" \in Config!AnyMode
          BY DEF Config!AnyMode
        <5>2. values = {[mode |-> m, until |-> ""] : m \in Config!AnyMode}
          BY <3>3, <4>2 DEF Config!ReadHeaders
        <5>3. [mode |-> "garbage", until |-> ""] \in values
          BY <5>1, <5>2
        <5> QED BY <5>3
      <4> QED BY <3>1, <4>1, <4>2
    <3> QED BY <2>4, <3>4
  <2> QED BY <2>2, <2>3, <2>4
<1> QED BY <1>2, <1>3

LEMMA ReadRespond ==
  ASSUME ReadInv, ConfigTypes, NEW t \in Threads, Config!Respond(t)
  PROVE  ReadInv'
<1>1. pc[t] = "reply" /\ UNCHANGED <<kind, config, given, call, reply, seen>>
  BY DEF Config!Respond
<1>2. CASE reply[t].code # "ok" /\ reply[t].code \notin call[t].forgiven
  <2>1. Config!Return(t, "err", <<>>)
    BY <1>2 DEF Config!Respond
  <2>2. Back(call[t], [status |-> "err", value |-> <<>>], seen[t])
    BY DEF Back
  <2> QED BY <1>1, <2>1, <2>2, ReadReturn
<1>3. CASE (reply[t].code = "ok" \/ reply[t].code \in call[t].forgiven)
           /\ call[t].verb \in {"PUT", "DELETE"}
  <2>1. Config!Return(t, "ok", <<>>)
    BY <1>3 DEF Config!Respond
  <2>2. Back(call[t], [status |-> "ok", value |-> <<>>], seen[t])
    BY <1>3 DEF Back
  <2> QED BY <1>1, <2>1, <2>2, ReadReturn
<1>4. CASE (reply[t].code = "ok" \/ reply[t].code \in call[t].forgiven)
           /\ call[t].verb \notin {"PUT", "DELETE"}
  <2> DEFINE values == IF reply[t].code # "ok" THEN Config!Default
                       ELSE IF call[t].verb = "HEAD" THEN Config!ReadHeaders(reply[t].data)
                       ELSE Config!Read(reply[t].data[1])
  <2>1. IF values = {} THEN Config!Return(t, "thrown", <<>>)
        ELSE \E v \in values : Config!Return(t, "ok", <<v>>)
    BY <1>4 DEF Config!Respond
  <2>2. values = IF reply[t].code # "ok" THEN Config!Default
                 ELSE IF call[t].verb = "HEAD" THEN Config!ReadHeaders(reply[t].data)
                 ELSE Config!Read(reply[t].data[1])
    OBVIOUS
  <2> HIDE DEF values
  <2>3. \E g \in seen[t] :
           /\ IF g = <<>> THEN call[t].verb = "HEAD" \/ values \subseteq Config!ReadsAbsent
              ELSE values \subseteq Config!Reads(g[1])
           /\ values = {} => g # <<>> /\ Config!Unreadable(g[1])
    BY <2>2, <1>1, <1>4, WhatIsRead DEF ReadInv, ThreadInv, Reading
  <2>4. PICK g \in seen[t] :
           /\ IF g = <<>> THEN call[t].verb = "HEAD" \/ values \subseteq Config!ReadsAbsent
              ELSE values \subseteq Config!Reads(g[1])
           /\ values = {} => g # <<>> /\ Config!Unreadable(g[1])
    BY <2>3
  <2>5. CASE values = {}
    <3>1. Config!Return(t, "thrown", <<>>)
      BY <2>1, <2>5
    <3>2. Back(call[t], [status |-> "thrown", value |-> <<>>], seen[t])
      BY <2>4, <2>5 DEF Back
    <3> QED BY <1>1, <3>1, <3>2, ReadReturn
  <2>6. CASE values # {}
    <3>1. PICK v \in values : Config!Return(t, "ok", <<v>>)
      BY <2>1, <2>6
    <3>2. Back(call[t], [status |-> "ok", value |-> <<v>>], seen[t])
      BY <2>4 DEF Back
    <3> QED BY <1>1, <3>1, <3>2, ReadReturn
  <2> QED BY <2>5, <2>6
<1> QED BY <1>2, <1>3, <1>4

LEMMA ReadNext ==
  ASSUME ReadInv, ConfigTypes, Config!GivenIsTyped, [Config!Next]_Config!vars
  PROVE  ReadInv'
<1>1. ASSUME NEW t \in Threads, NEW f \in Config!Functions, NEW x, Config!Call(t, f, x)
      PROVE  ReadInv'
  BY <1>1, ReadCall
<1>2. ASSUME NEW t \in Threads, Config!Rejected(t) PROVE ReadInv'
  <2>1. Back(call[t], [status |-> "err", value |-> <<>>], seen[t])
    BY DEF Back
  <2>2. Config!Return(t, "err", <<>>) /\ UNCHANGED <<kind, config, given, call, reply, seen>>
    BY <1>2 DEF Config!Rejected
  <2> QED BY <2>1, <2>2, ReadReturn
<1>3. ASSUME NEW t \in Threads, Config!Build(t) PROVE ReadInv'
  <2>1. /\ pc' = [pc EXCEPT ![t] = "sending"]
        /\ UNCHANGED <<kind, config, given, call, reply, result, seen>>
        /\ call[t].valid
    BY <1>3 DEF Config!Build, Config!Goto
  <2>2. pc'[t] = "sending"
    BY <2>1 DEF ConfigTypes
  <2>3. /\ (\A g \in seen[t] : IsValue(g))' /\ Reading(call[t])'
        /\ (call[t].valid => IsValue(call[t].x))'
    BY <2>1, KindStays DEF ReadInv, ThreadInv, IsValue, Reading
  <2>4. Back(call[t], result[t], seen[t])'
    BY <2>1, KindStays DEF ReadInv, ThreadInv, Back
  <2>5. ThreadInv(t)'
    BY <2>1, <2>2, <2>3, <2>4 DEF ThreadInv, AnswerRead
  <2> QED BY <2>1, <2>5, ReadOthers DEF ConfigTypes
<1>4. ASSUME NEW t \in Threads, Config!Serve(t) PROVE ReadInv'
  BY <1>4, ReadServe
<1>5. ASSUME NEW t \in Threads, Config!Refuse(t) \/ Config!Lose(t) PROVE ReadInv'
  BY <1>5, ReadRefuse
<1>6. ASSUME NEW t \in Threads, Config!Respond(t) PROVE ReadInv'
  BY <1>6, ReadRespond
<1>7. CASE UNCHANGED Config!vars
  <2>1. UNCHANGED <<kind, config, given, pc, call, reply, result, seen>>
    BY <1>7 DEF Config!vars, Config!threadVars
  <2>2. ServerInv'
    BY <2>1, KindStays DEF ReadInv, ServerInv, IsValue
  <2>3. ASSUME NEW t \in Threads PROVE ThreadInv(t)'
    BY <2>1, ReadAlone DEF ReadInv, ThreadInv
  <2> QED BY <2>2, <2>3 DEF ReadInv
<1> QED BY <1>1, <1>2, <1>3, <1>4, <1>5, <1>6, <1>7 DEF Config!Next

\* A call that says it has read a configuration returns one that the server had while
\* the call ran, or the default when there was none, and throws only for a rule that
\* cannot be read: whatever values are set, by however many threads, and whatever
\* answers are lost.
THEOREM ReadsWhatWasSet ==
  ASSUME Config!GivenIsTyped
  PROVE  Config!Spec => []Config!ReadsBack
<1>1. Config!Init => ConfigInv /\ ReadInv
  BY ConfigInit, ReadInit
<1>2. ConfigInv /\ ReadInv /\ [Config!Next]_Config!vars => (ConfigInv /\ ReadInv)'
  BY ConfigNext, ReadNext DEF ConfigInv
<1>3. ReadInv => Config!ReadsBack
  BY DEF ReadInv, ThreadInv, Back, Config!ReadsBack
<1> QED BY <1>1, <1>2, <1>3, PTL DEF Config!Spec
=============================================================================
