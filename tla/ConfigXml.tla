------------------------------ MODULE ConfigXml ------------------------------
(***************************************************************************)
(* How configurations become XML documents and how answers become          *)
(* configurations again (ToXML, ParseXML and what the calls do themselves).*)
(*                                                                         *)
(* Every text is a string and "" is what is not set, an empty string or an *)
(* empty list; a map of tags, a list of events and a number are opaque     *)
(* texts.  (The types tell a set empty prefix from none by its element, as *)
(* they tell any other text: it needs no value of its own.)  A document is *)
(* the set of its elements, pairs of a path and a text; a list of rules is *)
(* a sequence of documents.                                                *)
(***************************************************************************)
EXTENDS Sequences, SequencesExt

\* The elements that are written: those with something in them.
Written(elements) == {e \in elements : e[2] # ""}

Element(path, text) == <<path, text>>

\* What is written only if another part is there.
When(part, text) == IF part = "" THEN "" ELSE text

\* select_node(path), and the text in it, "" when there is none.
Has(doc, path) == \E e \in doc : IsPrefix(path, e[1])
Text(doc, path) ==
  IF \E e \in doc : e[1] = path THEN (CHOOSE e \in doc : e[1] = path)[2] ELSE ""

\* std::stoi of the text of path, evaluated when container is there, throws.
NoNumber(doc, container, path) == Has(doc, container) /\ Text(doc, path) = ""

\* Optional booleans.
StatusXML(b) == IF b = "" THEN "" ELSE IF b = "true" THEN "Enabled" ELSE "Disabled"
IsEnabled(text) == IF text = "Enabled" THEN "true" ELSE "false"
OptionalStatus(doc, container, path) ==
  IF Has(doc, container) THEN IsEnabled(Text(doc, path)) ELSE ""

Flags == {"", "true", "false"}

\* A time: in whole seconds, with less than 1000 microseconds, or with more; the
\* last three lie in summer time.
Times == {"", "whole", "short", "long", "summer whole", "summer short", "summer long"}

\* operator bool: a time in whole seconds counts as not set.
IsTime(time) == time \notin {"", "whole", "summer whole"}

\* Of the microseconds at most three digits are printed, the first ones.
ToISO8601UTC(time) ==
  IF time = "long" THEN "cut" ELSE IF time = "summer long" THEN "summer cut" ELSE time

TimeIfSet(time) == IF IsTime(time) THEN ToISO8601UTC(time) ELSE ""

\* What follows the point is read as microseconds; mktime is told that there is no
\* summer time, so that a time in summer comes out an hour late.
FromISO8601UTC(text) ==
  CASE text = "summer whole" -> "late whole"
    [] text = "summer short" -> "late short"
    [] text = "summer cut"   -> "late cut"
    [] text \notin {"summer whole", "summer short", "summer cut"} -> text

----------------------------------------------------------------------------
(* Filters of lifecycle and replication rules.                              *)

NoFilter == [and_prefix |-> "", and_tags |-> "", prefix |-> "", tag_key |-> "", tag_value |-> ""]

Filters ==
  [and_prefix : STRING, and_tags : STRING, prefix : STRING, tag_key : STRING, tag_value : STRING]

FilterXML(f) ==
  {Element(<<"Filter", "And", "Prefix">>, f.and_prefix),
   Element(<<"Filter", "And", "Tag">>, f.and_tags),
   Element(<<"Filter", "Prefix">>, f.prefix),
   Element(<<"Filter", "Tag", "Key">>, f.tag_key),
   Element(<<"Filter", "Tag", "Value">>, When(f.tag_key, f.tag_value))}

\* The tags of an And are looked for below the root, where none are.
ReadFilter(doc) ==
  [and_prefix |-> Text(doc, <<"Filter", "And", "Prefix">>),
   and_tags   |-> Text(doc, <<"And", "Tag">>),
   prefix     |-> Text(doc, <<"Filter", "Prefix">>),
   tag_key    |-> Text(doc, <<"Filter", "Tag", "Key">>),
   tag_value  |-> Text(doc, <<"Filter", "Tag", "Value">>)]

----------------------------------------------------------------------------
(* LifecycleConfig: a sequence of rules.                                    *)

LifecycleRule ==
  [abort_days |-> "", expiration_date |-> "", expiration_days |-> "",
   expired_delete_marker |-> "", filter |-> NoFilter, id |-> "",
   noncurrent_expiration_days |-> "", noncurrent_transition_days |-> "",
   noncurrent_transition_class |-> "", status |-> "false",
   transition_date |-> "", transition_days |-> "", transition_class |-> ""]

LifecycleRules ==
  [abort_days : STRING, expiration_date : Times, expiration_days : STRING,
   expired_delete_marker : Flags, filter : Filters, id : STRING,
   noncurrent_expiration_days : STRING, noncurrent_transition_days : STRING,
   noncurrent_transition_class : STRING, status : {"true", "false"},
   transition_date : Times, transition_days : STRING, transition_class : STRING]

\* Nothing calls LifecycleRule::Validate: a rule goes to the server as it is.
LifecycleElements(r) ==
  FilterXML(r.filter) \cup {
    Element(<<"AbortIncompleteMultipartUpload", "DaysAfterInitiation">>, r.abort_days),
    Element(<<"Expiration", "Date">>, TimeIfSet(r.expiration_date)),
    Element(<<"Expiration", "Days">>, r.expiration_days),
    Element(<<"Expiration", "ExpiredObjectDeleteMarker">>, r.expired_delete_marker),
    Element(<<"ID">>, r.id),
    Element(<<"NoncurrentVersionExpiration", "NoncurrentDays">>, r.noncurrent_expiration_days),
    Element(<<"NoncurrentVersionTransition", "NoncurrentDays">>, r.noncurrent_transition_days),
    Element(<<"NoncurrentVersionTransition", "StorageClass">>, r.noncurrent_transition_class),
    Element(<<"Status">>, StatusXML(r.status)),
    Element(<<"Transition", "Date">>, TimeIfSet(r.transition_date)),
    Element(<<"Transition", "Days">>, r.transition_days),
    Element(<<"Transition", "StorageClass">>, r.transition_class)}

LifecycleRuleXML(r) == Written(LifecycleElements(r))

LifecycleXML(rules) == [i \in DOMAIN rules |-> LifecycleRuleXML(rules[i])]

\* ExpiredObjectDeleteMarker is set whatever its text: the text goes through a
\* conversion from bool, to which every pointer is true.
ReadLifecycleRule(doc) ==
  [abort_days |-> Text(doc, <<"AbortIncompleteMultipartUpload", "DaysAfterInitiation">>),
   expiration_date |-> FromISO8601UTC(Text(doc, <<"Expiration", "Date">>)),
   expiration_days |-> Text(doc, <<"Expiration", "Days">>),
   expired_delete_marker |->
     IF Has(doc, <<"Expiration", "ExpiredObjectDeleteMarker">>) THEN "true" ELSE "",
   filter |-> ReadFilter(doc),
   id |-> Text(doc, <<"ID">>),
   noncurrent_expiration_days |->
     Text(doc, <<"NoncurrentVersionExpiration", "NoncurrentDays">>),
   noncurrent_transition_days |->
     Text(doc, <<"NoncurrentVersionTransition", "NoncurrentDays">>),
   noncurrent_transition_class |->
     Text(doc, <<"NoncurrentVersionTransition", "StorageClass">>),
   status |-> IsEnabled(Text(doc, <<"Status">>)),
   transition_date |-> FromISO8601UTC(Text(doc, <<"Transition", "Date">>)),
   transition_days |-> Text(doc, <<"Transition", "Days">>),
   transition_class |-> Text(doc, <<"Transition", "StorageClass">>)]

LifecycleRuleThrows(doc) ==
  \/ NoNumber(doc, <<"AbortIncompleteMultipartUpload">>,
                   <<"AbortIncompleteMultipartUpload", "DaysAfterInitiation">>)
  \/ NoNumber(doc, <<"NoncurrentVersionExpiration">>,
                   <<"NoncurrentVersionExpiration", "NoncurrentDays">>)
  \/ NoNumber(doc, <<"NoncurrentVersionTransition">>,
                   <<"NoncurrentVersionTransition", "NoncurrentDays">>)

\* What is read: the possible values, none of them when the call throws.
ReadLifecycle(doc) ==
  IF \E i \in DOMAIN doc : LifecycleRuleThrows(doc[i]) THEN {}
  ELSE {[i \in DOMAIN doc |-> ReadLifecycleRule(doc[i])]}

----------------------------------------------------------------------------
(* ReplicationConfig.  A part with an Enable() of its own is "" until then. *)

Destination ==
  [bucket_arn |-> "arn", access_control_owner |-> "", account |-> "",
   encryption_config |-> "", replica_kms_key_id |-> "",
   metrics |-> "", event_threshold_minutes |-> "",
   replication_time |-> "", time_minutes |-> "", storage_class |-> ""]

ReplicationRule ==
  [destination |-> Destination, delete_marker_status |-> "", existing_object_status |-> "",
   filter |-> NoFilter, id |-> "", prefix |-> "", priority |-> "",
   source_selection_criteria |-> "", sse_kms_status |-> "", delete_status |-> "",
   status |-> "false"]

Destinations ==
  [bucket_arn : STRING, access_control_owner : STRING, account : STRING,
   encryption_config : {"", "true"}, replica_kms_key_id : STRING,
   metrics : Flags, event_threshold_minutes : STRING,
   replication_time : Flags, time_minutes : STRING, storage_class : STRING]

ReplicationRules ==
  [destination : Destinations, delete_marker_status : Flags, existing_object_status : Flags,
   filter : Filters, id : STRING, prefix : STRING, priority : STRING,
   source_selection_criteria : {"", "true"}, sse_kms_status : Flags, delete_status : Flags,
   status : {"true", "false"}]

\* metrics and replication_time hold their status; an element without a text
\* still holds its place.
DestinationXML(d) ==
  { Element(<<"Destination", "Bucket">>, d.bucket_arn),
    Element(<<"Destination", "AccessControlTranslation", "Owner">>, d.access_control_owner),
    Element(<<"Destination", "Account">>, d.account),
    Element(<<"Destination", "EncryptionConfiguration">>, d.encryption_config),
    Element(<<"Destination", "EncryptionConfiguration", "ReplicaKmsKeyID">>,
      When(d.encryption_config, d.replica_kms_key_id)),
    Element(<<"Destination", "Metrics", "EventThreshold", "Minutes">>,
      When(d.metrics, d.event_threshold_minutes)),
    Element(<<"Destination", "Metrics", "EventThreshold", "Status">>, StatusXML(d.metrics)),
    Element(<<"Destination", "ReplicationTime", "Time", "Minutes">>,
      When(d.replication_time, d.time_minutes)),
    Element(<<"Destination", "ReplicationTime", "Status">>, StatusXML(d.replication_time)),
    Element(<<"Destination", "StorageClass">>, d.storage_class)}

\* A filter with an And beside a Prefix, say, counts as none (operator bool of
\* Filter is an exclusive or).
IsFilter(f) ==
  LET parts == <<f.and_prefix # "" \/ f.and_tags # "", f.prefix # "", f.tag_key # "">>
  IN  (parts[1] # parts[2]) # parts[3]

ReplicationElements(r) ==
  DestinationXML(r.destination) \cup (IF IsFilter(r.filter) THEN FilterXML(r.filter) ELSE {})
  \cup {
    Element(<<"DeleteMarkerReplication", "Status">>, StatusXML(r.delete_marker_status)),
    Element(<<"ExistingObjectReplication", "Status">>, StatusXML(r.existing_object_status)),
    Element(<<"ID">>, r.id),
    Element(<<"Prefix">>, r.prefix),
    Element(<<"Priority">>, r.priority),
    Element(<<"SourceSelectionCriteria">>, r.source_selection_criteria),
    Element(<<"SourceSelectionCriteria", "SseKmsEncryptedObjects", "Status">>,
      When(r.source_selection_criteria, StatusXML(r.sse_kms_status))),
    Element(<<"DeleteReplication", "Status">>, StatusXML(r.delete_status)),
    Element(<<"Status">>, StatusXML(r.status))}

ReplicationRuleXML(r) == Written(ReplicationElements(r))

ReplicationXML(c) ==
  [role |-> c.role, rules |-> [i \in DOMAIN c.rules |-> ReplicationRuleXML(c.rules[i])]]

EnabledPart(doc, path) == IF Has(doc, path) THEN "true" ELSE ""

ReadDestination(doc) ==
  [bucket_arn |-> Text(doc, <<"Destination", "Bucket">>),
   access_control_owner |-> Text(doc, <<"Destination", "AccessControlTranslation", "Owner">>),
   account |-> Text(doc, <<"Destination", "Account">>),
   encryption_config |-> EnabledPart(doc, <<"Destination", "EncryptionConfiguration">>),
   replica_kms_key_id |->
     Text(doc, <<"Destination", "EncryptionConfiguration", "ReplicaKmsKeyID">>),
   metrics |-> OptionalStatus(doc, <<"Destination", "Metrics">>,
                 <<"Destination", "Metrics", "EventThreshold", "Status">>),
   event_threshold_minutes |->
     Text(doc, <<"Destination", "Metrics", "EventThreshold", "Minutes">>),
   replication_time |-> OptionalStatus(doc, <<"Destination", "ReplicationTime">>,
                          <<"Destination", "ReplicationTime", "Status">>),
   time_minutes |-> Text(doc, <<"Destination", "ReplicationTime", "Time">>),
   storage_class |-> Text(doc, <<"Destination", "StorageClass">>)]

ReadReplicationRule(doc) ==
  [destination |-> ReadDestination(doc),
   delete_marker_status |-> OptionalStatus(doc, <<"DeleteMarkerReplication">>,
                              <<"DeleteMarkerReplication", "Status">>),
   existing_object_status |-> OptionalStatus(doc, <<"ExistingObjectReplication">>,
                                <<"ExistingObjectReplication", "Status">>),
   filter |-> ReadFilter(doc),
   id |-> Text(doc, <<"ID">>),
   prefix |-> Text(doc, <<"Prefix">>),
   priority |-> Text(doc, <<"Priority">>),
   source_selection_criteria |-> EnabledPart(doc, <<"SourceSelectionCriteria">>),
   sse_kms_status |->
     OptionalStatus(doc, <<"SourceSelectionCriteria", "SseKmsEncryptedObjects">>,
       <<"SourceSelectionCriteria", "SseKmsEncryptedObjects", "Status">>),
   delete_status |-> OptionalStatus(doc, <<"DeleteReplication">>,
                       <<"DeleteReplication", "Status">>),
   status |-> IsEnabled(Text(doc, <<"Status">>))]

\* The minutes of a ReplicationTime are an element of Time, whose own text is read.
ReplicationRuleThrows(doc) ==
  \/ NoNumber(doc, <<"Destination", "Metrics">>,
                   <<"Destination", "Metrics", "EventThreshold", "Minutes">>)
  \/ NoNumber(doc, <<"Destination", "ReplicationTime">>,
                   <<"Destination", "ReplicationTime", "Time">>)

ReadReplication(doc) ==
  IF \E i \in DOMAIN doc.rules : ReplicationRuleThrows(doc.rules[i]) THEN {}
  ELSE {[role |-> doc.role,
         rules |-> [i \in DOMAIN doc.rules |-> ReadReplicationRule(doc.rules[i])]]}

----------------------------------------------------------------------------
(* NotificationConfig: three lists of [target, events, id, prefix, suffix].  *)

NotificationCommonConfig ==
  [target |-> "arn", events |-> "", id |-> "", prefix |-> "", suffix |-> ""]

NotificationCommonConfigs ==
  [target : STRING, events : STRING, id : STRING, prefix : STRING, suffix : STRING]

NotificationLists == {"cloud_func_config_list", "queue_config_list", "topic_config_list"}
NoNotification == [list \in NotificationLists |-> <<>>]

\* The filter rules are two elements of one name, told apart by their Name.
NotificationCommonXML(c) ==
  Written({Element(<<"Target">>, c.target),
           Element(<<"Event">>, c.events),
           Element(<<"Id">>, c.id),
           Element(<<"Filter", "S3Key", "FilterRule", "prefix">>, c.prefix),
           Element(<<"Filter", "S3Key", "FilterRule", "suffix">>, c.suffix)})

NotificationXML(config) ==
  [list \in NotificationLists |->
     [i \in DOMAIN config[list] |-> NotificationCommonXML(config[list][i])]]

\* The value of an Event element is read, not the text in it: as many empty
\* strings as there are events.
EmptyEvents == "empty"

ReadNotificationCommon(doc) ==
  [target |-> Text(doc, <<"Target">>),
   events |-> IF Has(doc, <<"Event">>) THEN EmptyEvents ELSE "",
   id |-> Text(doc, <<"Id">>),
   prefix |-> Text(doc, <<"Filter", "S3Key", "FilterRule", "prefix">>),
   suffix |-> Text(doc, <<"Filter", "S3Key", "FilterRule", "suffix">>)]

ReadNotification(doc) ==
  {[list \in NotificationLists |->
      [i \in DOMAIN doc[list] |-> ReadNotificationCommon(doc[list][i])]]}

----------------------------------------------------------------------------
(* The smaller ones.                                                        *)

EncryptionXML(c) ==
  Written({Element(<<"SSEAlgorithm">>, c.sse_algorithm),
           Element(<<"KMSMasterKeyID">>, c.kms_master_key_id)})

ReadEncryption(doc) ==
  {[sse_algorithm |-> Text(doc, <<"SSEAlgorithm">>),
    kms_master_key_id |-> Text(doc, <<"KMSMasterKeyID">>)]}

TaggingXML(tags) == Written({Element(<<"TagSet", "Tag">>, tags)})

ReadTags(doc) == {Text(doc, <<"TagSet", "Tag">>)}

VersioningStatusXML(b) == IF b = "false" THEN "Suspended" ELSE StatusXML(b)

VersioningXML(c) ==
  Written({Element(<<"Status">>, VersioningStatusXML(c.status)),
           Element(<<"MFADelete">>, StatusXML(c.mfa_delete))})

ReadVersioning(doc) ==
  {[status |-> OptionalStatus(doc, <<"Status">>, <<"Status">>),
    mfa_delete |-> OptionalStatus(doc, <<"MFADelete">>, <<"MFADelete">>)]}

\* A mode that nobody has set is whatever the memory held.
RetentionModes == {"GOVERNANCE", "COMPLIANCE"}
AnyMode == RetentionModes \cup {"garbage"}
IsRetentionModeValid(mode) == mode \in RetentionModes

ObjectLockXML(c) ==
  IF IsRetentionModeValid(c.mode)
    THEN Written({Element(<<"Rule", "DefaultRetention", "Mode">>, c.mode),
                  Element(<<"Rule", "DefaultRetention", "Days">>, c.days),
                  Element(<<"Rule", "DefaultRetention", "Years">>, c.years)})
    ELSE {}

ReadObjectLock(doc) ==
  IF ~Has(doc, <<"Rule">>)
    THEN {[mode |-> m, days |-> "", years |-> ""] : m \in AnyMode}
    ELSE {[mode  |-> Text(doc, <<"Rule", "DefaultRetention", "Mode">>),
           days  |-> Text(doc, <<"Rule", "DefaultRetention", "Days">>),
           years |-> Text(doc, <<"Rule", "DefaultRetention", "Years">>)]}

\* Headers of PutObject, of the same names in the answer to StatObject.
RetentionXML(r) ==
  {Element(<<"Mode">>, r.mode), Element(<<"RetainUntilDate">>, ToISO8601UTC(r.until))}

ReadRetention(doc) ==
  {[mode |-> Text(doc, <<"Mode">>),
    until |-> FromISO8601UTC(Text(doc, <<"RetainUntilDate">>))]}

LegalHoldXML(hold) == {Element(<<"Status">>, hold)}

ReadLegalHold(doc) == {IF Text(doc, <<"Status">>) = "ON" THEN "ON" ELSE "OFF"}
=============================================================================
