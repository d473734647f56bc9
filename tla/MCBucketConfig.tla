--------------------------- MODULE MCBucketConfig ----------------------------
(* Values for BucketConfig: for every field of a rule one that sets it, alone or *)
(* with others, and one that does not.                                          *)
EXTENDS BucketConfig

Rule1 ==
  [LifecycleRule EXCEPT !.id = "one", !.status = "true", !.expiration_date = "long",
     !.filter.and_prefix = "p", !.filter.and_tags = "tags", !.abort_days = "7",
     !.noncurrent_expiration_days = "3", !.transition_class = "WARM", !.transition_days = "30"]
Rule2 ==
  [LifecycleRule EXCEPT !.expiration_date = "whole", !.transition_date = "summer short",
     !.expired_delete_marker = "false", !.filter.tag_key = "k", !.filter.tag_value = "v",
     !.noncurrent_transition_days = "9", !.noncurrent_transition_class = "COLD"]
Rule3 ==
  [LifecycleRule EXCEPT !.expiration_days = "5", !.filter.prefix = "q", !.filter.tag_value = "v",
     !.noncurrent_transition_class = "COLD"]

Copy1 ==
  [ReplicationRule EXCEPT !.id = "one", !.status = "true", !.priority = "1",
     !.destination.account = "other", !.destination.access_control_owner = "Destination",
     !.destination.encryption_config = "true", !.destination.metrics = "true",
     !.destination.event_threshold_minutes = "15", !.delete_marker_status = "true",
     !.filter.and_prefix = "p", !.filter.and_tags = "tags",
     !.source_selection_criteria = "true", !.sse_kms_status = "false"]
Copy2 ==
  [ReplicationRule EXCEPT !.prefix = "p", !.existing_object_status = "false",
     !.delete_status = "true", !.destination.storage_class = "COLD",
     !.destination.encryption_config = "true", !.destination.replica_kms_key_id = "key",
     !.destination.event_threshold_minutes = "15", !.destination.time_minutes = "15",
     !.sse_kms_status = "true",
     !.filter.prefix = "p", !.filter.tag_key = "k"]
Copy3 ==
  [ReplicationRule EXCEPT !.destination.replication_time = "true",
     !.destination.time_minutes = "15"]
Copy4 == [ReplicationRule EXCEPT !.destination.metrics = "true"]

Topic ==
  [NotificationCommonConfig EXCEPT !.events = "put", !.id = "one", !.prefix = "p"]
Queue == [NotificationCommonConfig EXCEPT !.suffix = "s"]

MCGiven ==
  [encryption   |-> {[sse_algorithm |-> "AES256", kms_master_key_id |-> ""],
                     [sse_algorithm |-> "aws:kms", kms_master_key_id |-> "key"],
                     [sse_algorithm |-> "", kms_master_key_id |-> ""]},
   lifecycle    |-> {<<Rule1>>, <<Rule2, Rule1>>, <<Rule3>>},
   notification |-> {[NoNotification EXCEPT !["topic_config_list"] = <<Topic, Queue>>],
                     [NoNotification EXCEPT !["queue_config_list"] = <<Queue>>,
                                            !["cloud_func_config_list"] = <<Topic>>]},
   objectLock   |-> {[mode |-> "GOVERNANCE", days |-> "5", years |-> ""],
                     [mode |-> "COMPLIANCE", days |-> "", years |-> "1"],
                     [mode |-> "COMPLIANCE", days |-> "", years |-> ""],
                     [mode |-> "garbage", days |-> "", years |-> ""]},
   policy       |-> {"", "policy1", "policy2"},
   replication  |-> {[role |-> "role", rules |-> <<Copy1, Copy2>>],
                     [role |-> "", rules |-> <<Copy3>>],
                     [role |-> "", rules |-> <<Copy4>>]},
   tags         |-> {"", "tags1", "tags2", BadTags},
   versioning   |-> {[status |-> s, mfa_delete |-> m] :
                       s \in {"", "true", "false"}, m \in {"", "true", "false"}},
   legalHold    |-> {"ON"},
   objectTags   |-> {"tags1", "tags2", BadTags},
   retention    |-> {[mode |-> "GOVERNANCE", until |-> "summer long"],
                     [mode |-> "COMPLIANCE", until |-> "summer whole"],
                     [mode |-> "garbage", until |-> "short"]}]
=============================================================================
