---------------------------- MODULE BucketConfig -----------------------------
(***************************************************************************)
(* The requests that set, read and delete one configuration of a bucket    *)
(* (or one attribute of an object), by threads that share a client and by  *)
(* the Async overloads, against a server that may refuse them and over a   *)
(* network that loses answers.  All of these calls have one shape; each of *)
(* them is a row here, and the shape is the steps that follow.             *)
(***************************************************************************)
EXTENDS ConfigXml, Integers, FiniteSets

CONSTANTS
  Threads,
  Given,      \* what callers set: a set of values for every kind
  MaxCalls,   \* how many calls are made
  MaxFaults   \* how many requests fail without an answer

Kinds == {"encryption", "lifecycle", "notification", "objectLock", "policy", "replication",
          "tags", "versioning", "legalHold", "objectTags", "retention"}
ObjectKinds == {"legalHold", "objectTags", "retention"}

\* What each kind of value is made of.
GivenIsTyped ==
  /\ Given["encryption"] \subseteq [sse_algorithm : STRING, kms_master_key_id : STRING]
  /\ Given["lifecycle"] \subseteq Seq(LifecycleRules)
  /\ Given["notification"] \subseteq [NotificationLists -> Seq(NotificationCommonConfigs)]
  /\ Given["objectLock"] \subseteq [mode : AnyMode, days : STRING, years : STRING]
  /\ \A k \in {"policy", "tags", "objectTags"} : Given[k] \subseteq STRING
  /\ Given["replication"] \subseteq [role : STRING, rules : Seq(ReplicationRules)]
  /\ Given["versioning"] \subseteq [status : Flags, mfa_delete : Flags]
  /\ Given["legalHold"] \subseteq {"ON", "OFF"}
  /\ Given["retention"] \subseteq [mode : AnyMode, until : Times]

ASSUME ConfigAssumption ==
  /\ DOMAIN Given = Kinds /\ GivenIsTyped
  /\ MaxCalls \in Nat /\ MaxFaults \in Nat

VARIABLES
  kind,      \* the configuration this behaviour is about
  config,    \* the server's: <<document>>, or <<>> when there is none
  given,     \* history: the value that document was written from
  alive,     \* the process has not been terminated
  pc,        \* per thread: "idle", "called", "sending", "reply"
  call,      \* the row and the value of its call
  reply,     \* the answer: [code, data]
  result,    \* what its last call returned: [status, value]
  seen,      \* history: the values the server had during the call
  calls, faults

threadVars == <<pc, call, reply, result, seen>>
vars == <<kind, config, given, alive, threadVars, calls, faults>>

----------------------------------------------------------------------------
(* The calls.  inputs: the values a caller may give (<<>> is no value);     *)
(* valid: those that Validate lets pass; forgiven: the codes of errors that *)
(* the call takes for an answer.                                            *)

\* Every error.
Codes == {"NoSuchLifecycleConfiguration", "ReplicationConfigurationNotFoundError",
          "NoSuchObjectLockConfiguration", "NotFound", "AccessDenied", "none"}

Row(verb, inputs, valid, forgiven) ==
  [verb |-> verb, inputs |-> {<<x>> : x \in inputs},
   valid |-> {<<x>> : x \in valid}, forgiven |-> forgiven]

Without(verb, forgiven) ==
  [verb |-> verb, inputs |-> {<<>>}, valid |-> {<<>>}, forgiven |-> forgiven]

Get == Without("GET", {})
Delete == Without("DELETE", {})
Set(k, valid) == Row("PUT", Given[k], valid, {})

GetBucketEncryption == Get
SetBucketEncryption == Set("encryption", {x \in Given["encryption"] : x.sse_algorithm # ""})
DeleteBucketEncryption == Without("DELETE", Codes)

GetBucketLifecycle_AnyError == Without("GET", Codes)
GetBucketLifecycle == Without("GET", {"NoSuchLifecycleConfiguration"})
SetBucketLifecycle == Set("lifecycle", Given["lifecycle"])
DeleteBucketLifecycle == Delete

GetBucketNotification == Get
SetBucketNotification == Set("notification", Given["notification"])
DeleteBucketNotification == Row("PUT", {NoNotification}, {NoNotification}, {})

GetObjectLockConfig == Get
\* ObjectLockConfig::Validate: days or years with a mode, neither without one.
SetObjectLockConfig ==
  Set("objectLock", {x \in Given["objectLock"] :
                       IF IsRetentionModeValid(x.mode) THEN (x.days # "") # (x.years # "")
                       ELSE x.days = "" /\ x.years = ""})
DeleteObjectLockConfig == Delete

GetBucketPolicy == Get
SetBucketPolicy == Set("policy", Given["policy"] \ {""})
DeleteBucketPolicy == Delete

GetBucketReplication == Get
SetBucketReplication == Set("replication", Given["replication"])
DeleteBucketReplication_AnyError == Without("DELETE", Codes)
DeleteBucketReplication ==
  Without("DELETE", {"ReplicationConfigurationNotFoundError"})

\* Too many tags, or one with a key or a value that cannot be.
BadTags == "bad"

GetBucketTags == Get
SetBucketTags == Set("tags", Given["tags"] \ {BadTags})
DeleteBucketTags == Delete

GetBucketVersioning == Get
SetBucketVersioning == Set("versioning", {x \in Given["versioning"] : x.status # ""})

EnableObjectLegalHold == Row("PUT", {"ON"}, {"ON"}, {})
DisableObjectLegalHold == Row("PUT", {"OFF"}, {"OFF"}, {})
IsObjectLegalHoldEnabled == Without("GET", {"NoSuchObjectLockConfiguration"})

GetObjectRetention == Without("GET", {"NoSuchObjectLockConfiguration"})
\* Validate refuses the modes that are valid.
SetObjectRetention ==
  Set("retention", {x \in Given["retention"] : ~IsRetentionModeValid(x.mode) /\ IsTime(x.until)})

GetObjectTags == Get
SetObjectTags == Set("objectTags", Given["objectTags"] \ {BadTags})
DeleteObjectTags == Delete

\* The headers of an object that is written anew: tags, retention and a legal
\* hold, or none of it.
ObjectWriteArgs(k) ==
  LET inputs == {<<x>> : x \in Given[k]} \cup {<<>>}
  IN  [verb |-> "PUT", inputs |-> inputs, valid |-> inputs, forgiven |-> {}]

StatObject == Without("HEAD", {})

Functions ==
  CASE kind = "encryption" ->
         {GetBucketEncryption, SetBucketEncryption, DeleteBucketEncryption}
    [] kind = "lifecycle" ->
         {GetBucketLifecycle, SetBucketLifecycle, DeleteBucketLifecycle}
    [] kind = "notification" ->
         {GetBucketNotification, SetBucketNotification, DeleteBucketNotification}
    [] kind = "objectLock" ->
         {GetObjectLockConfig, SetObjectLockConfig, DeleteObjectLockConfig}
    [] kind = "policy" -> {GetBucketPolicy, SetBucketPolicy, DeleteBucketPolicy}
    [] kind = "replication" ->
         {GetBucketReplication, SetBucketReplication, DeleteBucketReplication}
    [] kind = "tags" -> {GetBucketTags, SetBucketTags, DeleteBucketTags}
    [] kind = "versioning" -> {GetBucketVersioning, SetBucketVersioning}
    [] kind = "legalHold" ->
         {EnableObjectLegalHold, DisableObjectLegalHold, IsObjectLegalHoldEnabled,
          StatObject, ObjectWriteArgs(kind)}
    [] kind = "retention" ->
         {GetObjectRetention, SetObjectRetention, StatObject, ObjectWriteArgs(kind)}
    [] kind = "objectTags" ->
         {GetObjectTags, SetObjectTags, DeleteObjectTags, ObjectWriteArgs(kind)}

----------------------------------------------------------------------------
(* What is sent and what is read.                                           *)

ToXML(x) ==
  CASE kind = "encryption"   -> EncryptionXML(x)
    [] kind = "lifecycle"    -> LifecycleXML(x)
    [] kind = "notification" -> NotificationXML(x)
    [] kind = "objectLock"   -> ObjectLockXML(x)
    [] kind = "policy"       -> x
    [] kind = "replication"  -> ReplicationXML(x)
    [] kind \in {"tags", "objectTags"} -> TaggingXML(x)
    [] kind = "versioning"   -> VersioningXML(x)
    [] kind = "legalHold"    -> LegalHoldXML(x)
    [] kind = "retention"    -> RetentionXML(x)

\* RetentionModeToString ends the process for a mode that nobody has set.
Terminates(c) == kind = "retention" /\ c.x # <<>> /\ ~IsRetentionModeValid(c.x[1].mode)

\* The values the answer may be read as, {} if reading it throws.
Read(doc) ==
  CASE kind = "encryption"   -> ReadEncryption(doc)
    [] kind = "lifecycle"    -> ReadLifecycle(doc)
    [] kind = "notification" -> ReadNotification(doc)
    [] kind = "objectLock"   -> ReadObjectLock(doc)
    [] kind = "policy"       -> {doc}
    [] kind = "replication"  -> ReadReplication(doc)
    [] kind \in {"tags", "objectTags"} -> ReadTags(doc)
    [] kind = "versioning"   -> ReadVersioning(doc)
    [] kind = "legalHold"    -> ReadLegalHold(doc)
    [] kind = "retention"    -> ReadRetention(doc)

\* What a call returns that takes an error for its answer: an empty configuration,
\* no legal hold, and a response whose mode nobody has set.
Default ==
  CASE kind = "lifecycle" -> {<<>>}
    [] kind = "legalHold" -> {"OFF"}
    [] kind = "retention" -> {[mode |-> m, until |-> ""] : m \in AnyMode}

\* StatObject: a header that is missing leaves its member as it is, which is what
\* the memory held.
ReadHeaders(data) ==
  CASE data # <<>> -> Read(data[1])
    [] data = <<>> /\ kind = "legalHold" -> {"ON", "OFF", "garbage"}
    [] data = <<>> /\ kind = "retention" -> {[mode |-> m, until |-> ""] : m \in AnyMode}

----------------------------------------------------------------------------
(* The server.                                                              *)

\* What is there when nothing was ever set, and the code of the error otherwise.
EmptyDocument ==
  CASE kind = "notification" -> <<NotificationXML(NoNotification)>>
    [] kind \in {"versioning", "objectTags"} -> <<{}>>
    [] kind \notin {"notification", "versioning", "objectTags"} -> <<>>

NotFoundCode ==
  CASE kind = "lifecycle" -> "NoSuchLifecycleConfiguration"
    [] kind = "replication" -> "ReplicationConfigurationNotFoundError"
    [] kind \in {"legalHold", "retention"} -> "NoSuchObjectLockConfiguration"
    [] kind \notin {"lifecycle", "replication", "legalHold", "retention"} -> "NotFound"

\* Its answer to a request, and what becomes of the configuration.
Answer(c) ==
  LET here == IF config = <<>> THEN EmptyDocument ELSE config
  IN  CASE c.verb = "PUT" -> [code |-> "ok", data |-> <<>>]
        [] c.verb = "DELETE" ->
             [code |-> IF config = <<>> /\ kind \in {"encryption", "replication"}
                         THEN NotFoundCode ELSE "ok", data |-> <<>>]
        [] c.verb = "GET" -> [code |-> IF here = <<>> THEN NotFoundCode ELSE "ok", data |-> here]
        [] c.verb = "HEAD" -> [code |-> "ok", data |-> here]

Apply(c) ==
  IF c.verb \in {"PUT", "DELETE"}
    THEN /\ config' = IF c.x = <<>> THEN <<>> ELSE <<ToXML(c.x[1])>>
         /\ given' = c.x
    ELSE UNCHANGED <<config, given>>

Refusal == [code |-> "AccessDenied", data |-> <<>>]
Silence == [code |-> "none", data |-> <<>>]

----------------------------------------------------------------------------
(* The steps of a call.                                                     *)

Nothing == [status |-> "none", value |-> <<>>]

Init ==
  /\ kind \in Kinds
  /\ config = <<>> /\ given = <<>>
  /\ alive = TRUE
  /\ pc = [t \in Threads |-> "idle"]
  /\ call = [t \in Threads |-> [verb |-> "GET", x |-> <<>>, valid |-> TRUE, forgiven |-> {}]]
  /\ reply = [t \in Threads |-> Silence]
  /\ result = [t \in Threads |-> Nothing]
  /\ seen = [t \in Threads |-> {}]
  /\ calls = 0 /\ faults = 0

Goto(t, label) == pc' = [pc EXCEPT ![t] = label]

Return(t, status, value) ==
  /\ result' = [result EXCEPT ![t] = [status |-> status, value |-> value]]
  /\ Goto(t, "idle")

\* A call, or its Async overload: the arguments are copied now, the call runs
\* when its thread does.
Call(t, f, x) ==
  /\ alive
  /\ pc[t] = "idle"
  /\ calls < MaxCalls
  /\ calls' = calls + 1
  /\ call' = [call EXCEPT ![t] = [verb |-> f.verb, x |-> x, valid |-> x \in f.valid,
                                  forgiven |-> f.forgiven]]
  /\ result' = [result EXCEPT ![t] = Nothing]
  /\ seen' = [seen EXCEPT ![t] = {given}]
  /\ Goto(t, "called")
  /\ UNCHANGED <<kind, config, given, alive, reply, faults>>

\* Validate, or GetRegion, fails: no request is made.
Rejected(t) ==
  /\ alive
  /\ pc[t] = "called"
  /\ Return(t, "err", <<>>)
  /\ UNCHANGED <<kind, config, given, alive, call, reply, seen, calls, faults>>

\* The request is built.
Build(t) ==
  /\ alive
  /\ pc[t] = "called"
  /\ call[t].valid
  /\ alive' = ~Terminates(call[t])
  /\ Goto(t, "sending")
  /\ UNCHANGED <<kind, config, given, call, reply, result, seen, calls, faults>>

\* The server does what is asked.
Serve(t) ==
  /\ alive
  /\ pc[t] = "sending"
  /\ reply' = [reply EXCEPT ![t] = Answer(call[t])]
  /\ Apply(call[t])
  /\ seen' = [s \in Threads |-> seen[s] \cup {given'}]
  /\ Goto(t, "reply")
  /\ UNCHANGED <<kind, alive, call, result, calls, faults>>

\* The server refuses, or the request does not get to it.
Refuse(t) ==
  /\ alive
  /\ pc[t] = "sending"
  /\ faults < MaxFaults
  /\ faults' = faults + 1
  /\ \E r \in {Refusal, Silence} : reply' = [reply EXCEPT ![t] = r]
  /\ Goto(t, "reply")
  /\ UNCHANGED <<kind, config, given, alive, call, result, seen, calls>>

\* The answer is lost.
Lose(t) ==
  /\ alive
  /\ pc[t] = "reply"
  /\ reply[t].code = "ok"
  /\ faults < MaxFaults
  /\ faults' = faults + 1
  /\ reply' = [reply EXCEPT ![t] = Silence]
  /\ UNCHANGED <<kind, config, given, alive, pc, call, result, seen, calls>>

\* The end of a call.
Respond(t) ==
  LET c == call[t]
      r == reply[t]
  IN /\ alive
     /\ pc[t] = "reply"
     /\ IF r.code # "ok" /\ r.code \notin c.forgiven THEN Return(t, "err", <<>>)
        ELSE IF c.verb \in {"PUT", "DELETE"} THEN Return(t, "ok", <<>>)
        ELSE LET values == IF r.code # "ok" THEN Default
                           ELSE IF c.verb = "HEAD" THEN ReadHeaders(r.data)
                           ELSE Read(r.data[1])
             IN  IF values = {} THEN Return(t, "thrown", <<>>)
                 ELSE \E v \in values : Return(t, "ok", <<v>>)
     /\ UNCHANGED <<kind, config, given, alive, call, reply, seen, calls, faults>>

Next ==
  \E t \in Threads :
    \/ \E f \in Functions : \E x \in f.inputs : Call(t, f, x)
    \/ Rejected(t)
    \/ Build(t)
    \/ Serve(t)
    \/ Refuse(t)
    \/ Lose(t)
    \/ Respond(t)

Spec == Init /\ [][Next]_vars

----------------------------------------------------------------------------
(* Properties.                                                              *)

\* What is left of a value on its way to the server and back: the tags of an And,
\* dates in whole seconds, of other times the microseconds after three digits and in
\* summer the hour, the sense of an ExpiredObjectDeleteMarker, the names of
\* events, what belongs to a part that is not set and filters that count as none
\* are lost, and some rules cannot be read.
FilterKept(f) == [f EXCEPT !.and_tags = "", !.tag_value = When(f.tag_key, @)]

TimeKept(time) ==
  CASE time = "long" -> "cut"
    [] time = "summer whole" -> "late whole"
    [] time = "summer short" -> "late short"
    [] time = "summer long" -> "late cut"
    [] time \in {"", "whole", "short"} -> time

DateKept(time) == IF time \in {"whole", "summer whole"} THEN "" ELSE TimeKept(time)

LifecycleKept(r) ==
  [r EXCEPT !.filter = FilterKept(@),
            !.expiration_date = DateKept(@),
            !.transition_date = DateKept(@),
            !.expired_delete_marker = When(@, "true")]

DestinationKept(d) ==
  [d EXCEPT !.replica_kms_key_id = When(d.encryption_config, @),
            !.event_threshold_minutes = When(d.metrics, @),
            !.time_minutes = ""]

ReplicationKept(r) ==
  [r EXCEPT !.destination = DestinationKept(@),
            !.filter = IF IsFilter(@) THEN FilterKept(@) ELSE NoFilter,
            !.sse_kms_status = When(r.source_selection_criteria, @)]

NotificationKept(c) == [c EXCEPT !.events = When(@, EmptyEvents)]

Unreadable(x) ==
  \/ /\ kind = "lifecycle"
     /\ \E i \in DOMAIN x : /\ x[i].noncurrent_transition_class # ""
                            /\ x[i].noncurrent_transition_days = ""
  \/ /\ kind = "replication"
     /\ \E i \in DOMAIN x.rules :
          LET d == x.rules[i].destination
          IN  \/ d.replication_time # ""
              \/ d.metrics # "" /\ d.event_threshold_minutes = ""

\* What may be read when nothing is there, and when x is.
ReadsAbsent ==
  CASE kind \in {"lifecycle", "legalHold", "retention"} -> Default
    [] kind = "notification" -> {NoNotification}
    [] kind = "versioning" -> {[status |-> "", mfa_delete |-> ""]}
    [] kind = "objectTags" -> {""}
    [] kind \in {"encryption", "objectLock", "policy", "replication", "tags"} -> {}

Reads(x) ==
  CASE kind = "lifecycle" -> {[i \in DOMAIN x |-> LifecycleKept(x[i])]}
    [] kind = "replication" ->
         {[x EXCEPT !.rules = [i \in DOMAIN @ |-> ReplicationKept(@[i])]]}
    [] kind = "notification" ->
         {[list \in NotificationLists |->
             [i \in DOMAIN x[list] |-> NotificationKept(x[list][i])]]}
    [] kind = "objectLock" ->
         IF IsRetentionModeValid(x.mode) THEN {x} ELSE {[x EXCEPT !.mode = m] : m \in AnyMode}
    [] kind = "retention" -> {[x EXCEPT !.until = TimeKept(@)]}
    [] kind \notin {"lifecycle", "replication", "notification", "objectLock",
                    "retention"} -> {x}

\* A call that says it has read a configuration returns one that the server had
\* while the call ran, or the default when there was none, and never one made of
\* an error; it throws only for a rule that cannot be read.  (StatObject without
\* the headers returns what the memory held.)
ReadsBack ==
  \A t \in Threads :
    LET c == call[t]
        r == result[t]
    IN  /\ r.status = "ok" /\ c.verb \in {"GET", "HEAD"} =>
             \E g \in seen[t] :
               IF g = <<>> THEN c.verb = "HEAD" \/ r.value[1] \in ReadsAbsent
               ELSE r.value[1] \in Reads(g[1])
        /\ r.status = "thrown" => \E g \in seen[t] : g # <<>> /\ Unreadable(g[1])

\* A call that says it has set or deleted the configuration has: the server had
\* it so while the call ran.  DeleteBucketEncryption alone says so of anything.
SuccessMeansDone ==
  \A t \in Threads :
    LET c == call[t]
    IN  /\ result[t].status = "ok"
        /\ c.verb = "PUT" \/ (c.verb = "DELETE" /\ kind # "encryption")
        => c.x \in seen[t]
=============================================================================
