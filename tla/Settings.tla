------------------------------ MODULE Settings ------------------------------
(***************************************************************************)
(* The configuration: Settings::load() of a file and the environment, what *)
(* validate() lets pass, and what open_pools() makes of it.  There is no   *)
(* state; load() runs before anything else does.  A file and an            *)
(* environment are functions from the settings they give to their values.  *)
(***************************************************************************)
EXTENDS Integers, Sequences, Functions

CONSTANTS
    Files,        \* the files, and ...
    Environments, \* ... the environments to load
    Strings,      \* the strings
    Malformed,    \* a value that is not of the setting's type
    Empty,        \* the empty string
    Unset,        \* None
    Refused,      \* an error
    Word          \* bound: products are taken modulo this, in the code 2^64

BYTES_PER_MB == 1048576
DEFAULT_PAGE_SIZE == 4096

Default ==
    [bind |-> "127.0.0.1:7000", auth_token |-> Unset, body_limit_bytes |-> 1048576,
     request_timeout_seconds |-> 30, directory |-> "./data/databases",
     max_open_databases |-> 50, idle_timeout_seconds |-> 300,
     cleanup_interval_seconds |-> 30, checkpoint_interval_seconds |-> 10,
     reader_connections |-> 1, busy_timeout_ms |-> 5000, acquire_timeout_seconds |-> 10,
     max_result_rows |-> 10000, max_concurrent_requests |-> 512,
     max_concurrent_requests_per_database |-> 8, admission_timeout_ms |-> 50,
     cache_size_kb |-> Unset, writer_cache_size_kb |-> 1024, reader_cache_size_kb |-> 512,
     statement_cache_capacity |-> 16, mmap_size_mb |-> 64, wal_size_limit_mb |-> 16]

Fields == DOMAIN Default
Texts == {"bind", "directory", "auth_token"}

\* The settings that have a variable, in the order they are looked at.
Variables ==
    << "bind", "auth_token", "directory", "max_open_databases", "idle_timeout_seconds",
       "cleanup_interval_seconds", "checkpoint_interval_seconds", "reader_connections",
       "busy_timeout_ms", "acquire_timeout_seconds", "max_result_rows", "cache_size_kb",
       "writer_cache_size_kb", "reader_cache_size_kb", "statement_cache_capacity",
       "max_concurrent_requests", "max_concurrent_requests_per_database",
       "admission_timeout_ms", "mmap_size_mb", "wal_size_limit_mb" >>

\* What a file may give a setting, and the environment a variable.
FileValue(field) == (IF field \in Texts THEN Strings ELSE Nat) \cup {Malformed}
VariableValue(field) == IF field \in Texts THEN Strings ELSE Nat \cup {Empty, Malformed}

ASSUME SettingsAssumption ==
    /\ \A f \in Files : DOMAIN f \subseteq Fields /\ \A x \in DOMAIN f : f[x] \in FileValue(x)
    /\ \A e \in Environments :
          DOMAIN e \subseteq Range(Variables) /\ \A x \in DOMAIN e : e[x] \in VariableValue(x)
    /\ {Default.bind, Default.directory, Empty} \subseteq Strings
    /\ Refused \notin [Fields -> Nat \cup Strings \cup {Malformed, Unset}]
    /\ Word \in Nat \ {0}
-----------------------------------------------------------------------------
(* Loading.                                                                 *)

\* set_string(), set_path(), set_optional_string() and set_number().
Override(s, field, env) ==
    IF field \notin DOMAIN env THEN s
    ELSE IF field \notin Texts /\ env[field] \notin Nat THEN Refused
    ELSE [s EXCEPT ![field] =
            IF field = "auth_token" /\ env[field] = Empty THEN Unset ELSE env[field]]

\* #[serde(default)]: what a file does not give has its default.
WithDefaults(file) ==
    [field \in Fields |-> IF field \in DOMAIN file THEN file[field] ELSE Default[field]]

\* Settings::apply_environment(), which the first bad number ends.
ApplyEnvironment(s, env) ==
    LET after[i \in 0..Len(Variables)] ==
          IF i = 0 THEN s
          ELSE LET t == after[i - 1]
               IN  IF t = Refused THEN t ELSE Override(t, Variables[i], env)
    IN  after[Len(Variables)]

\* Mutant: the override of both caches is not looked at.
ValidateBudgets(s) ==
    \A field \in {"max_open_databases", "reader_connections", "cleanup_interval_seconds",
                  "checkpoint_interval_seconds", "writer_cache_size_kb", "reader_cache_size_kb",
                  "max_concurrent_requests", "max_concurrent_requests_per_database",
                  "max_result_rows", "body_limit_bytes"} : s[field] # 0

\* Settings::validate()
Validate(s) ==
    \A field \in {"max_open_databases", "reader_connections", "cleanup_interval_seconds",
                  "checkpoint_interval_seconds", "cache_size_kb", "writer_cache_size_kb",
                  "reader_cache_size_kb", "max_concurrent_requests",
                  "max_concurrent_requests_per_database", "max_result_rows",
                  "body_limit_bytes"} : s[field] # 0

\* Mutant: the file is validated, not what the environment makes of it.
LoadValidatingFirst(file, env) ==
    IF Malformed \in Range(file) \/ ~Validate(WithDefaults(file))
    THEN Refused
    ELSE ApplyEnvironment(WithDefaults(file), env)

\* Settings::load()
Load(file, env) ==
    IF Malformed \in Range(file) THEN Refused
    ELSE LET s == ApplyEnvironment(WithDefaults(file), env)
         IN  IF s = Refused THEN s ELSE IF Validate(s) THEN s ELSE Refused
-----------------------------------------------------------------------------
(* What the settings become.                                                *)

LegacyOr(s, budget) == IF s.cache_size_kb = Unset THEN budget ELSE s.cache_size_kb
WriterCache(s) == LegacyOr(s, s.writer_cache_size_kb)
ReaderCache(s) == LegacyOr(s, s.reader_cache_size_kb)

\* The release build multiplies without a check.
WalLimitBytes(s) == (s.wal_size_limit_mb * BYTES_PER_MB) % Word
Autocheckpoint(s) == WalLimitBytes(s) \div DEFAULT_PAGE_SIZE
-----------------------------------------------------------------------------
InForce(file, env, field) ==
    IF field \notin DOMAIN env THEN WithDefaults(file)[field]
    ELSE IF field = "auth_token" /\ env[field] = Empty THEN Unset
    ELSE env[field]

WellFormed(file, env) ==
    /\ \A field \in DOMAIN file : file[field] # Malformed
    /\ \A field \in DOMAIN env \ Texts : env[field] \in Nat

\* The settings for which 0 is a value like any other.
MayBeZero ==
    {"request_timeout_seconds", "idle_timeout_seconds", "busy_timeout_ms",
     "acquire_timeout_seconds", "admission_timeout_ms", "statement_cache_capacity",
     "mmap_size_mb", "wal_size_limit_mb"}

NeedsMore(file, env) ==
    \E field \in Fields \ (Texts \cup MayBeZero) : InForce(file, env, field) = 0

(* A variable wins over the file and the file over the default, for each    *)
(* setting by itself; the server does not start exactly if a value given is *)
(* malformed, also one that would not be used, or if one in force is zero   *)
(* and must not be: a bad value of the file may be put right by a variable, *)
(* and a good one spoilt.                                                   *)
LoadIsAsGiven ==
    \A file \in Files, env \in Environments :
        Load(file, env) =
            IF WellFormed(file, env) /\ ~NeedsMore(file, env)
            THEN [field \in Fields |-> InForce(file, env, field)]
            ELSE Refused

(* Whatever is loaded, the server can work with: the limits and intervals   *)
(* are what the other modules assume of their constants, every connection   *)
(* has a page cache, and autocheckpoint, "the last line of defence" of the  *)
(* WAL (open_pools), is asked for unless its limit is 0 or overflows.  What *)
(* SQLite makes of a number of pages beyond 32 bits is not said here.       *)
AcceptedServes ==
    \A file \in Files, env \in Environments :
        LET s == Load(file, env)
        IN  s # Refused =>
              /\ {s.max_open_databases, s.max_concurrent_requests, s.reader_connections,
                  s.max_concurrent_requests_per_database, s.cleanup_interval_seconds,
                  s.checkpoint_interval_seconds, s.max_result_rows,
                  WriterCache(s), ReaderCache(s)} \subseteq Nat \ {0}
              /\ s.idle_timeout_seconds \in Nat
              /\ s.wal_size_limit_mb \in 1..((Word - 1) \div BYTES_PER_MB) => Autocheckpoint(s) > 0
=============================================================================
