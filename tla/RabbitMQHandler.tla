--------------------------- MODULE RabbitMQHandler ---------------------------
(***************************************************************************)
(* The RabbitMQ handler, control_plane/brokers/rabbitmq.py, as far as a    *)
(* registration uses it: initialize_service_config PUTs the service's      *)
(* broker user with a fresh random password, then the topic permissions of *)
(* that user.  The user name is the service name with a suffix, so one     *)
(* service name has one user.  A password is named by the request that     *)
(* drew it.                                                                *)
(*                                                                         *)
(* A PUT goes through a urllib3 pool that retries it, so it may be applied *)
(* though its caller sees an error, and, if a proxy or the management      *)
(* plugin gives up on an attempt that it is still working on, an attempt   *)
(* may be applied after its caller went on: one of a call that failed, or  *)
(* an earlier one of a call that succeeded.  LatePuts says whether the     *)
(* deployment can do that.  Every call may then leave attempts behind,     *)
(* which land late, several times, or never; so what may land is never     *)
(* taken off, and a call need not say whether it left one.                 *)
(***************************************************************************)

CONSTANTS
  Requests,
  Names,
  Nobody,     \* the password of a user that does not exist
  LatePuts    \* may a PUT be applied after its caller went on?

VARIABLES
  password,   \* the password the broker accepts for each service's user
  topicPerm,  \* the services whose user has topic permissions
  late,       \* user PUTs that may still land, as <<name, password>>
  latePerm    \* services with a permission PUT that failed and may still land

BrokerTypeOK ==
  /\ password \in [Names -> Requests \cup {Nobody}]
  /\ topicPerm \subseteq Names
  /\ late \subseteq Names \X Requests
  /\ latePerm \subseteq Names

BrokerInit ==
  /\ password = [n \in Names |-> Nobody]
  /\ topicPerm = {}
  /\ late = {}
  /\ latePerm = {}

\* PUT api/users/<name>_user: creates the user, or replaces its password.  It
\* may be the retry of an attempt that is still on its way.
PutUser(n, pw) ==
  /\ password' = [password EXCEPT ![n] = pw]
  /\ late' = IF LatePuts THEN late \cup {<<n, pw>>} ELSE late
  /\ UNCHANGED <<topicPerm, latePerm>>

\* The same PUT when the caller gets an error or a status of 400 and up: it was
\* applied or not, and may be still.
PutUserFails(n, pw) ==
  /\ password' \in {password, [password EXCEPT ![n] = pw]}
  /\ late' = IF LatePuts THEN late \cup {<<n, pw>>} ELSE late
  /\ UNCHANGED <<topicPerm, latePerm>>

\* PUT api/topic-permissions/%2F/<name>_user.  The user was PUT just before.  An
\* attempt that it leaves behind is not remembered: it would set what is set.
PutTopicPermissions(n) ==
  /\ topicPerm' = topicPerm \cup {n}
  /\ UNCHANGED <<password, late, latePerm>>

\* The same PUT when the caller gets an error or a status of 400 and up.
PutTopicPermissionsFails(n) ==
  /\ topicPerm' \in {topicPerm, topicPerm \cup {n}}
  /\ latePerm' = IF LatePuts THEN latePerm \cup {n} ELSE latePerm
  /\ UNCHANGED <<password, late>>

\* A user PUT whose caller went on reaches the user database ...
LateUserLands ==
  \E put \in late :
    /\ password' = [password EXCEPT ![put[1]] = put[2]]
    /\ UNCHANGED <<topicPerm, late, latePerm>>

\* ... or a permission PUT.
LatePermissionsLand ==
  \E n \in latePerm \ topicPerm :
    /\ topicPerm' = topicPerm \cup {n}
    /\ UNCHANGED <<password, late, latePerm>>

LatePutLands == LateUserLands \/ LatePermissionsLand
=============================================================================
