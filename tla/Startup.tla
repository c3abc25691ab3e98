-------------------------------- MODULE Startup --------------------------------
(***************************************************************************)
(* The start of the web process (src/server.rs): the environment is read,  *)
(* the database is tried until it answers or the wait is over, the origin  *)
(* and the session keys are validated, and the process serves.  Whether it *)
(* has a database is decided here once: an offline process stays offline.  *)
(***************************************************************************)
EXTENDS Integers

CONSTANTS
  Environments,   \* environments the process may be started in
  AttemptTime,    \* the longest a connection attempt takes, in seconds
  RetryPause,     \* the sleep between two attempts
  DefaultWait,    \* max_wait when DB_CONNECT_MAX_WAIT_SECS does not say
  Unset,          \* a variable that is not set
  Malformed       \* a value that does not parse

Origins == {"https", "http_loopback", "http_remote", "path", "credentials", "not_url"}
Secrets == {Unset, "short", "long"}
Environment ==
  [database : BOOLEAN, wait : {Unset, Malformed} \cup Nat, origin : Origins,
   shared_auth : BOOLEAN, signing : Secrets, client : Secrets, account_scope : BOOLEAN]

ASSUME StartupAssumption ==
  /\ Environments \subseteq Environment
  /\ AttemptTime \in Nat /\ RetryPause \in Nat \ {0} /\ DefaultWait \in Nat
  /\ Unset \notin Nat /\ Malformed \notin Nat
  /\ Unset # Malformed

VARIABLES
  phase,     \* "connecting", "pausing", "configuring", "serving" or "exited"
  env,       \* the environment it was started in
  elapsed,   \* seconds since connect_with_retry was called
  db,        \* WebState.db: whether there is a connection
  auth       \* WebState.browser_auth: "none", or the kind of its cookies

startupVars == <<phase, env, elapsed, db, auth>>

-----------------------------------------------------------------------------
\* parse_u64_or: what does not parse counts as not set.
ParseOr(value, default) == IF value \in {Unset, Malformed} THEN default ELSE value

MaxWait == ParseOr(env.wait, DefaultWait)

\* normalize_origin
OriginAccepted(origin) == origin \in {"https", "http_loopback"}

\* browser_auth_config: absent without a Shared Auth URL, and then nothing is
\* required; its keys, its client secret and the account scope otherwise.
BrowserAuthValid(e) ==
  e.shared_auth => e.signing = "long" /\ e.client # Unset /\ e.account_scope

\* Only an HTTPS origin gets Secure cookies with the __Host- prefix.
BrowserAuth(e) ==
  CASE ~e.shared_auth                        -> "none"
    [] e.shared_auth /\ e.origin = "https"   -> "host_cookies"
    [] e.shared_auth /\ e.origin # "https"   -> "plain_cookies"

StartupInit ==
  /\ env \in Environments
  /\ phase = IF env.database THEN "connecting" ELSE "configuring"
  /\ elapsed = 0
  /\ db = FALSE
  /\ auth = "none"

\* Mutant: the time is looked at before the attempt.
WaitOverAtStart(seconds) == elapsed >= MaxWait

\* connect_with_retry: the deadline is compared when an attempt has failed, so
\* the last attempt may begin up to RetryPause after it.
WaitOver(seconds) == elapsed + seconds >= MaxWait

Connect(seconds) ==
  /\ phase = "connecting"
  /\ elapsed' = elapsed + seconds
  /\ phase' = "configuring"
  /\ db' = TRUE
  /\ UNCHANGED <<env, auth>>

\* The connection failed, or PostgreSQL did not confirm that it is read-only.
ConnectFails(seconds) ==
  /\ phase = "connecting"
  /\ elapsed' = elapsed + seconds
  /\ phase' = IF WaitOver(seconds) THEN "configuring" ELSE "pausing"
  /\ UNCHANGED <<env, db, auth>>

Pause ==
  /\ phase = "pausing"
  /\ elapsed' = elapsed + RetryPause
  /\ phase' = "connecting"
  /\ UNCHANGED <<env, db, auth>>

\* run: a configuration that is refused ends the process, after the wait.
\* The clock has no use from here on.
Configure ==
  /\ phase = "configuring"
  /\ IF OriginAccepted(env.origin) /\ BrowserAuthValid(env)
     THEN phase' = "serving" /\ auth' = BrowserAuth(env)
     ELSE phase' = "exited" /\ UNCHANGED auth
  /\ elapsed' = 0
  /\ UNCHANGED <<env, db>>

StartupNext ==
  \/ \E seconds \in 0 .. AttemptTime : Connect(seconds) \/ ConnectFails(seconds)
  \/ Pause
  \/ Configure

-----------------------------------------------------------------------------
StartupTypeOK ==
  /\ phase \in {"connecting", "pausing", "configuring", "serving", "exited"}
  /\ env \in Environments
  /\ elapsed \in Nat
  /\ db \in BOOLEAN
  /\ auth \in {"none", "host_cookies", "plain_cookies"}

\* The wait for the database (connect_with_retry) is what the environment asks
\* for: a process with a database URL goes offline after the whole wait and
\* never before it, and no attempt that was begun in time stretches it by more
\* than one pause and one attempt.
WaitIsKept ==
  /\ phase = "configuring" /\ env.database /\ ~db => elapsed >= MaxWait
  /\ elapsed <= MaxWait + RetryPause + AttemptTime
================================================================================
