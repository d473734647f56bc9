--------------------------- MODULE CredentialChain ---------------------------
(***************************************************************************)
(* The credential providers under the requests of several threads.  Every  *)
(* request asks the client's provider for credentials when it is signed.   *)
(* A provider keeps the credentials it got until they expire; a            *)
(* ChainedProvider asks a list of providers and keeps the one that         *)
(* answered.  The chain holds a mutex during Fetch; the providers          *)
(* themselves have no lock.                                                *)
(*                                                                         *)
(* An assignment to creds_ is not atomic: it is made in two steps, and a   *)
(* copy taken in between has the new access key with the old secret key.   *)
(*                                                                         *)
(* When credentials expire is known from the text their service sent, and  *)
(* the code does not read it as it was meant: a time in whole seconds      *)
(* counts as none at all, and summer time makes the others an hour late.   *)
(***************************************************************************)
EXTENDS Integers, Sequences, FiniteSets, FiniteSetsExt

CONSTANTS
  Threads,
  providers_,  \* the chain, a sequence of providers
  Kind,        \* of a provider: "fixed", "sts" or "iam"
  NoProvider,  \* provider_ == nullptr
  Lives,       \* how long issued credentials last, in ticks
  Margin,      \* expired() looks this far ahead (10 seconds)
  Shift,       \* how much later a time of a text is read (an hour, or nothing)
  MaxTime, MaxRequests

Providers == {providers_[i] : i \in DOMAIN providers_}

ASSUME ChainAssumption ==
  /\ providers_ \in Seq(Providers) /\ providers_ # <<>>
  /\ Kind \in [Providers -> {"fixed", "sts", "iam"}]
  /\ NoProvider \notin Providers
  /\ Lives \subseteq Nat
  /\ Margin \in Nat /\ Shift \in Nat
  /\ MaxTime \in Nat /\ MaxRequests \in Nat

\* A time; usecs is 1 for any fraction of a second.  0 is the epoch.
UtcTime(secs, usecs) == [secs |-> secs, usecs |-> usecs]

\* A default-constructed one.
NoTime == UtcTime(0, 0)

\* operator bool: a time without a fraction is not set either.
IsSet(time) == time.secs # 0 /\ time.usecs # 0

\* The text of a time, read: mktime is told that there is no summer time, and
\* where there is the result is late.
FromISO8601UTC(time) == UtcTime(time.secs + Shift, time.usecs)

\* Credentials; a key is the number of its issue, 0 for the empty string.
Credentials(err, key, expiration) ==
  [err |-> err, access_key |-> key, secret_key |-> key, expiration |-> expiration]

NoCreds == Credentials(FALSE, 0, NoTime)
Error == Credentials(TRUE, 0, NoTime)

VARIABLES
  now,
  issued,     \* keys issued so far; when each expires, as its service says
  requests,   \* requests begun so far
  creds,      \* creds_ of each provider
  chain,      \* creds_ of the chain
  provider_,
  mutex,      \* who holds fetch_mutex_: a set of at most one thread
  pc,         \* where the request of a thread is
  who,        \* the provider it asks
  rest,       \* the providers left in the chain's loop
  got,        \* what Fetch returned to it
  signed,     \* what its last request was signed with
  checked,    \* history: when those were last looked at
  failed      \* history: the providers that failed during this Fetch

threadVars == <<pc, who, rest, got, signed, checked, failed>>
vars == <<now, issued, requests, creds, chain, provider_, mutex, threadVars>>

\* Env*, AwsConfig, MinioClientConfig and Static providers have what their
\* constructors found: credentials, none, or an error.  A provider that rejected
\* its own arguments (err_) is an error for ever, too.
Init ==
  /\ now = 1
  /\ issued = <<>>
  /\ requests = 0
  /\ creds \in [Providers -> {NoCreds, Error, Credentials(FALSE, -1, NoTime)}]
  /\ \A p \in Providers : Kind[p] # "fixed" => creds[p] = NoCreds
  /\ chain = NoCreds
  /\ provider_ = NoProvider
  /\ mutex = {}
  /\ pc = [t \in Threads |-> "idle"]
  /\ who = [t \in Threads |-> NoProvider]
  /\ rest = [t \in Threads |-> <<>>]
  /\ got = [t \in Threads |-> NoCreds]
  /\ signed = [t \in Threads |-> NoCreds]
  /\ checked = [t \in Threads |-> 0]
  /\ failed = [t \in Threads |-> {}]

Goto(t, label) == pc' = [pc EXCEPT ![t] = label]

\* The call is over and its local variables with it.
Leave(t) ==
  /\ Goto(t, "idle")
  /\ who' = [who EXCEPT ![t] = NoProvider]
  /\ rest' = [rest EXCEPT ![t] = <<>>]
  /\ got' = [got EXCEPT ![t] = NoCreds]
  /\ checked' = [checked EXCEPT ![t] = 0]
  /\ failed' = [failed EXCEPT ![t] = {}]

----------------------------------------------------------------------------
(* Credentials.                                                             *)

\* No margin for the time until the request arrives.
expired_NoMargin(expiration) == IsSet(expiration) /\ expiration.secs < now

expired(expiration) == IsSet(expiration) /\ expiration.secs < now + Margin

\* operator bool.
Usable(c) == ~c.err /\ c.access_key # 0 /\ ~expired(c.expiration)

\* Halfway through the assignment of new to old.
Torn(old, new) == [new EXCEPT !.secret_key = old.secret_key]

----------------------------------------------------------------------------
(* Time.                                                                    *)

Tick ==
  /\ now < MaxTime
  /\ now' = now + 1
  /\ UNCHANGED <<issued, requests, creds, chain, provider_, mutex, threadVars>>

----------------------------------------------------------------------------
(* ChainedProvider::Fetch.                                                  *)

\* Request::BuildHeaders calls Fetch.
Request(t) ==
  /\ pc[t] = "idle"
  /\ requests < MaxRequests
  /\ requests' = requests + 1
  /\ Goto(t, "lock")
  /\ UNCHANGED <<now, issued, creds, chain, provider_, mutex, who, rest, got,
                 signed, checked, failed>>

\* The mutex can be taken.
Free == mutex = {}

Lock(t) ==
  /\ pc[t] = "lock"
  /\ Free
  /\ mutex' = mutex \cup {t}
  /\ Goto(t, "chain")
  /\ UNCHANGED <<now, issued, requests, creds, chain, provider_, who, rest, got,
                 signed, checked, failed>>

\* The call returns c to BuildHeaders and gives up the mutex.
ReturnCreds(t, c) ==
  /\ got' = [got EXCEPT ![t] = c]
  /\ checked' = [checked EXCEPT ![t] = now]
  /\ mutex' = mutex \ {t}
  /\ Goto(t, "sign")

\* The chain asks p next, and then those of list r.
Ask(t, p, r) ==
  /\ who' = [who EXCEPT ![t] = p]
  /\ rest' = [rest EXCEPT ![t] = r]
  /\ provider_' = p
  /\ Goto(t, "fetch")

\* The credentials at hand are good enough.
Cached(t) ==
  /\ pc[t] = "chain"
  /\ Usable(chain)
  /\ ReturnCreds(t, chain)
  /\ UNCHANGED <<now, issued, requests, creds, chain, provider_, who, rest,
                 signed, failed>>

\* The mutex is given up while the providers are asked.
Refresh_Unlocks(t) ==
  /\ pc[t] = "chain"
  /\ ~Usable(chain)
  /\ failed' = [failed EXCEPT ![t] = {}]
  /\ mutex' = mutex \ {t}
  /\ IF provider_ # NoProvider
       THEN Ask(t, provider_, providers_)
       ELSE Ask(t, Head(providers_), Tail(providers_))
  /\ UNCHANGED <<now, issued, requests, creds, chain, got, signed, checked>>

\* They are not: the provider that answered last is asked, then the whole list.
Refresh(t) ==
  /\ pc[t] = "chain"
  /\ ~Usable(chain)
  /\ failed' = [failed EXCEPT ![t] = {}]
  /\ IF provider_ # NoProvider
       THEN Ask(t, provider_, providers_)
       ELSE Ask(t, Head(providers_), Tail(providers_))
  /\ UNCHANGED <<now, issued, requests, creds, chain, mutex, got, signed,
                 checked>>

\* creds_ = provider_->Fetch(), first half.
Assign(t) ==
  /\ pc[t] = "answered"
  /\ chain' = Torn(chain, got[t])
  /\ Goto(t, "assign")
  /\ UNCHANGED <<now, issued, requests, creds, provider_, mutex, who, rest, got,
                 signed, checked, failed>>

\* Second half, and creds_ is looked at.
Accept(t) ==
  /\ pc[t] = "assign"
  /\ chain' = got[t]
  /\ Usable(got[t])
  /\ ReturnCreds(t, got[t])
  /\ UNCHANGED <<now, issued, requests, creds, provider_, who, rest, signed,
                 failed>>

\* The last provider of the list is not asked.
TryNext_SkipsLast(t) ==
  /\ pc[t] = "assign"
  /\ chain' = got[t]
  /\ ~Usable(got[t])
  /\ failed' = [failed EXCEPT ![t] = @ \cup {who[t]}]
  /\ IF Len(rest[t]) > 1
       THEN /\ Ask(t, Head(rest[t]), Tail(rest[t]))
            /\ UNCHANGED <<got, checked, mutex>>
       ELSE /\ ReturnCreds(t, Error)
            /\ UNCHANGED <<who, rest, provider_>>
  /\ UNCHANGED <<now, issued, requests, creds, signed>>

\* Or the next provider is asked; after the last one the call fails.
TryNext(t) ==
  /\ pc[t] = "assign"
  /\ chain' = got[t]
  /\ ~Usable(got[t])
  /\ failed' = [failed EXCEPT ![t] = @ \cup {who[t]}]
  /\ IF rest[t] # <<>>
       THEN /\ Ask(t, Head(rest[t]), Tail(rest[t]))
            /\ UNCHANGED <<got, checked, mutex>>
       ELSE /\ ReturnCreds(t, Error)
            /\ UNCHANGED <<who, rest, provider_>>
  /\ UNCHANGED <<now, issued, requests, creds, signed>>

----------------------------------------------------------------------------
(* Fetch of one provider.                                                   *)

\* It returns c.
Answer(t, c) ==
  /\ got' = [got EXCEPT ![t] = c]
  /\ Goto(t, "answered")

\* A provider with fixed credentials returns them, good or not; another one does
\* if they are usable.
FetchCached(t) ==
  /\ pc[t] = "fetch"
  /\ Kind[who[t]] = "fixed" \/ Usable(creds[who[t]])
  /\ Answer(t, creds[who[t]])
  /\ UNCHANGED <<now, issued, requests, creds, chain, provider_, mutex, who,
                 rest, signed, checked, failed>>

\* Otherwise it sends a request to its service.
FetchSend(t) ==
  /\ pc[t] = "fetch"
  /\ Kind[who[t]] # "fixed"
  /\ ~Usable(creds[who[t]])
  /\ Goto(t, "sent")
  /\ UNCHANGED <<now, issued, requests, creds, chain, provider_, mutex, who,
                 rest, got, signed, checked, failed>>

\* The service issues credentials, which are stored.  It may state when they
\* expire in whole seconds.
FetchIssued(t, life, usecs) ==
  /\ pc[t] = "sent"
  /\ issued' = Append(issued, UtcTime(now + life, usecs))
  /\ LET new == Credentials(FALSE, Len(issued) + 1,
                            FromISO8601UTC(UtcTime(now + life, usecs))) IN
       /\ got' = [got EXCEPT ![t] = new]
       /\ creds' = [creds EXCEPT ![who[t]] = Torn(@, new)]
  /\ Goto(t, "store")
  /\ UNCHANGED <<now, requests, chain, provider_, mutex, who, rest, signed,
                 checked, failed>>

FetchStored(t) ==
  /\ pc[t] = "store"
  /\ creds' = [creds EXCEPT ![who[t]] = got[t]]
  /\ Goto(t, "answered")
  /\ UNCHANGED <<now, issued, requests, chain, provider_, mutex, who, rest, got,
                 signed, checked, failed>>

\* It does not: AssumeRole, WebIdentity and CustomToken store the error, Ldap and
\* Certificate only return it.  A document without credentials is stored as empty.
FetchFailed(t) ==
  /\ pc[t] = "sent"
  /\ \E c \in {NoCreds, Error} :
       /\ Answer(t, c)
       /\ \/ creds' = [creds EXCEPT ![who[t]] = c]
          \/ c = Error /\ UNCHANGED creds
  /\ UNCHANGED <<now, issued, requests, chain, provider_, mutex, who, rest,
                 signed, checked, failed>>

\* The mutex is not released.
FetchThrows_KeepsMutex(t) ==
  /\ pc[t] = "sent"
  /\ Kind[who[t]] = "iam"
  /\ Leave(t)
  /\ UNCHANGED <<now, issued, requests, creds, chain, provider_, mutex, signed>>

\* IamAwsProvider parses JSON, which throws: the call of the client ends with an
\* exception, and the lock_guard releases the mutex.
FetchThrows(t) ==
  /\ pc[t] = "sent"
  /\ Kind[who[t]] = "iam"
  /\ mutex' = mutex \ {t}
  /\ Leave(t)
  /\ UNCHANGED <<now, issued, requests, creds, chain, provider_, signed>>

----------------------------------------------------------------------------
(* The request.                                                             *)

\* BuildHeaders signs with what it got; creds.err is not looked at.
Sign(t) ==
  /\ pc[t] = "sign"
  /\ signed' = [signed EXCEPT ![t] = got[t]]
  /\ Leave(t)
  /\ UNCHANGED <<now, issued, requests, creds, chain, provider_, mutex>>

\* A step of the request of t.
Step(t) ==
  \/ Lock(t) \/ Cached(t) \/ Refresh(t) \/ Assign(t) \/ Accept(t) \/ TryNext(t)
  \/ FetchCached(t) \/ FetchSend(t)
  \/ \E life \in Lives, usecs \in {0, 1} : FetchIssued(t, life, usecs)
  \/ FetchStored(t) \/ FetchFailed(t) \/ FetchThrows(t)
  \/ Sign(t)

Next ==
  \/ \E t \in Threads : Request(t) \/ Step(t)
  \/ Tick

\* Threads run on, and the requests of the providers end (http.cc).
Spec == Init /\ [][Next]_vars /\ \A t \in Threads : WF_vars(Step(t))

----------------------------------------------------------------------------
(* Properties.                                                              *)

Keys == -1 .. MaxRequests * Len(providers_) * 2
Times == [secs : 0 .. MaxTime + Max(Lives \cup {0}) + Shift, usecs : {0, 1}]
CredentialSet ==
  [err : BOOLEAN, access_key : Keys, secret_key : Keys, expiration : Times]

TypeOK ==
  /\ now \in 1 .. MaxTime
  /\ issued \in Seq(Times \ {NoTime})
  /\ requests \in 0 .. MaxRequests
  /\ creds \in [Providers -> CredentialSet]
  /\ chain \in CredentialSet
  /\ provider_ \in Providers \cup {NoProvider}
  /\ mutex \subseteq Threads /\ Cardinality(mutex) <= 1
  /\ pc \in [Threads -> {"idle", "lock", "chain", "fetch", "sent", "store",
                         "answered", "assign", "sign"}]
  /\ who \in [Threads -> Providers \cup {NoProvider}]
  /\ rest \in [Threads -> Seq(Providers)]
  /\ got \in [Threads -> CredentialSet]
  /\ signed \in [Threads -> CredentialSet]
  /\ checked \in [Threads -> 0 .. MaxTime]
  /\ failed \in [Threads -> SUBSET Providers]

\* A request is signed with an access key and the secret key issued with it, and
\* with the expiration of their issue: never with halves of two credentials,
\* although creds_ is read and refreshed by every thread (fetch_mutex_).
SignedAsIssued ==
  \A t \in Threads :
    LET c == signed[t] IN
    /\ c.secret_key = c.access_key
    /\ c.access_key > 0 => c.expiration = FromISO8601UTC(issued[c.access_key])

\* If no more than the margin of expired() has passed since Fetch looked at the
\* credentials it returned, the request is signed no later than Shift after they
\* expired: in time where there is no summer time.  Of credentials that expire on
\* a whole second this says nothing: the code goes on using them for ever.
FreshWhenSigned ==
  \A t \in Threads :
    LET key == got[t].access_key IN
    pc[t] = "sign" /\ key > 0 /\ now - checked[t] <= Margin
      => issued[key].usecs = 0 \/ now <= issued[key].secs + Shift

\* Fetch fails only after every provider of the chain has failed in this Fetch.
FailsOnlyIfAllFailed ==
  \A t \in Threads : pc[t] = "sign" /\ got[t].err => failed[t] = Providers

\* Every request is signed and sent, or ends with an exception: no thread waits
\* for the mutex for ever.
RequestsEnd == \A t \in Threads : pc[t] = "lock" ~> pc[t] = "idle"
=============================================================================
