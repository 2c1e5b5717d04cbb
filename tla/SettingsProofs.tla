---------------------------- MODULE SettingsProofs ----------------------------
(***************************************************************************)
(* Settings::load() for every file and every environment that have values  *)
(* of the kinds FileValue and VariableValue.  apply_environment() goes     *)
(* through the variables one by one; AfterVariables says what it has made  *)
(* of the settings after each, without the way there (ApplyEnvironmentIs). *)
(***************************************************************************)
EXTENDS MCSettings, FiniteSetTheorems, FunctionTheorems, TLAPS

Values == Nat \cup Strings \cup {Malformed, Unset}
Count == Len(Variables)

\* The settings whose variable is among the first n and given.
Seen(env, n) == {Variables[i] : i \in 1..n} \cap DOMAIN env

\* What a variable sets its setting to.
Meant(env, field) ==
    IF field = "auth_token" /\ env[field] = Empty THEN Unset ELSE env[field]

\* What the first n variables make of s.
AfterVariables(s, env, n) ==
    IF \E field \in Seen(env, n) \ Texts : env[field] \notin Nat
    THEN Refused
    ELSE [field \in Fields |-> IF field \in Seen(env, n) THEN Meant(env, field) ELSE s[field]]
-----------------------------------------------------------------------------
\* A set with zero, and with every successor of its members, has all of Nat:
\* what it lacks would be a finite set mapped into itself by +1 without 0.
LEMMA SetInduction ==
    ASSUME NEW S, 0 \in S, \A n \in Nat : n \in S => n + 1 \in S
    PROVE  Nat \subseteq S
<1>. SUFFICES ASSUME NEW m \in Nat, m \notin S PROVE FALSE
  OBVIOUS
<1>. DEFINE A == S \cap (0..m)
            f == [n \in A |-> n + 1]
<1>1. IsFiniteSet(A)
  <2>1. IsFiniteSet(0..m)
    BY FS_Interval
  <2>2. A \in SUBSET (0..m)
    OBVIOUS
  <2>. QED
    BY <2>1, <2>2, FS_Subset
<1>2. f \in [A -> A]
  OBVIOUS
<1>3. f \in Injection(A, A)
  BY <1>2 DEF Injection, IsInjective
<1>4. f \in Surjection(A, A)
  <2>. HIDE DEF f, A
  <2>. QED
    BY <1>1, <1>3, FS_Injection
<1>5. 0 \in A
  OBVIOUS
<1>6. \E n \in A : f[n] = 0
  <2>. HIDE DEF f, A
  <2>. QED
    BY <1>4, <1>5 DEF Surjection
<1>. QED
  BY <1>6
-----------------------------------------------------------------------------
(* The settings and their variables. *)

\* The variables are those of settings.
LEMMA VariablesAreFields ==
    /\ Count \in Nat /\ DOMAIN Variables = 1..Count
    /\ \A i \in 1..Count : Variables[i] \in Fields
<1>1. Count = 20 /\ DOMAIN Variables = 1..20
  BY DEF Count, Variables
<1>2. \A i \in 1..20 : Variables[i] \in Fields
  BY DEF Variables, Fields, Default
<1>. QED
  BY <1>1, <1>2

\* After the last variable, all that are given have been seen.
LEMMA AllSeen ==
    ASSUME NEW env \in Environments
    PROVE  Seen(env, Count) = DOMAIN env
BY VariablesAreFields, SettingsAssumption DEF Seen, Range

\* The values of the environment.
LEMMA MeantIsValue ==
    ASSUME NEW env \in Environments, NEW field \in DOMAIN env
    PROVE  Meant(env, field) \in Values /\ env[field] \in Values
BY SettingsAssumption DEF Meant, Values, VariableValue

\* The defaults are of the kinds of their settings.
LEMMA DefaultIsGood ==
    /\ \A field \in Texts : Default[field] \in Strings \cup {Unset}
    /\ \A field \in Fields \ Texts : Default[field] \in Nat \/ field = "cache_size_kb"
    /\ Default.cache_size_kb = Unset
<1>1. \A field \in Texts : Default[field] \in Strings \cup {Unset}
  <2>1. Default.auth_token = Unset
    BY SMT DEF Default
  <2>. QED
    BY <2>1, SettingsAssumption DEF Texts
<1>2. \A field \in Fields \ Texts : Default[field] \in Nat \/ field = "cache_size_kb"
  BY SMT DEF Default, Fields, Texts
<1>3. Default.cache_size_kb = Unset
  BY SMT DEF Default
<1>. QED
  BY <1>1, <1>2, <1>3

\* A file on top of the defaults.
LEMMA FileOnDefault ==
    ASSUME NEW file \in Files
    PROVE  WithDefaults(file) \in [Fields -> Values]
<1>1. \A field \in DOMAIN file : file[field] \in Values
  BY SettingsAssumption DEF FileValue, Values
<1>2. \A field \in Fields : Default[field] \in Values
  BY DefaultIsGood DEF Values
<1>. QED
  BY <1>1, <1>2 DEF WithDefaults
-----------------------------------------------------------------------------
(* apply_environment(). *)

\* Settings are not an error.
LEMMA SettingsAreNotRefused ==
    ASSUME NEW s \in [Fields -> Values], NEW env \in Environments, NEW n \in 0..Count,
           \A field \in Seen(env, n) \ Texts : env[field] \in Nat
    PROVE  AfterVariables(s, env, n) \in [Fields -> Values] /\ AfterVariables(s, env, n) # Refused
<1>1. \A field \in Seen(env, n) : Meant(env, field) \in Values
  BY MeantIsValue DEF Seen
<1>2. AfterVariables(s, env, n) \in [Fields -> Values]
  BY <1>1 DEF AfterVariables
<1>. QED
  BY <1>2, SettingsAssumption DEF Values

\* One variable more.
LEMMA OneVariable ==
    ASSUME NEW s \in [Fields -> Values], NEW env \in Environments,
           NEW n \in Nat, n + 1 <= Count
    PROVE  AfterVariables(s, env, n + 1) =
             IF AfterVariables(s, env, n) = Refused THEN Refused
             ELSE Override(AfterVariables(s, env, n), Variables[n + 1], env)
<1>. DEFINE v == Variables[n + 1]
            t == AfterVariables(s, env, n)
<1>1. v \in Fields /\ n \in 0..Count
  BY VariablesAreFields
<1>2. Seen(env, n + 1) = Seen(env, n) \cup ({v} \cap DOMAIN env)
  BY DEF Seen
<1>3. CASE \E field \in Seen(env, n) \ Texts : env[field] \notin Nat
  BY <1>2, <1>3 DEF AfterVariables
<1>4. CASE \A field \in Seen(env, n) \ Texts : env[field] \in Nat
  <2>1. t # Refused
    BY <1>1, <1>4, SettingsAreNotRefused
  <2>2. t = [field \in Fields |-> IF field \in Seen(env, n) THEN Meant(env, field) ELSE s[field]]
    BY <1>4 DEF AfterVariables
  <2>3. CASE v \notin DOMAIN env
    <3>1. Seen(env, n + 1) = Seen(env, n)
      BY <1>2, <2>3
    <3>. QED
      BY <2>1, <2>3, <3>1 DEF AfterVariables, Override
  <2>4. CASE v \in DOMAIN env /\ v \notin Texts /\ env[v] \notin Nat
    <3>1. AfterVariables(s, env, n + 1) = Refused
      BY <1>2, <2>4 DEF AfterVariables
    <3>. QED
      BY <2>1, <2>4, <3>1 DEF Override
  <2>5. CASE v \in DOMAIN env /\ (v \in Texts \/ env[v] \in Nat)
    <3>1. \A field \in Seen(env, n + 1) \ Texts : env[field] \in Nat
      BY <1>2, <1>4, <2>5
    <3>2. AfterVariables(s, env, n + 1) =
            [field \in Fields |-> IF field \in Seen(env, n + 1) THEN Meant(env, field) ELSE s[field]]
      BY <3>1 DEF AfterVariables
    <3>3. Override(t, v, env) = [t EXCEPT ![v] = Meant(env, v)]
      BY <2>5 DEF Override, Meant
    <3>4. [t EXCEPT ![v] = Meant(env, v)] =
            [field \in Fields |-> IF field \in Seen(env, n + 1) THEN Meant(env, field) ELSE s[field]]
      <4>. HIDE DEF t, v
      <4>1. Seen(env, n + 1) = Seen(env, n) \cup {v}
        BY <1>2, <2>5
      <4>. QED
        BY <1>1, <2>2, <4>1
    <3>. QED
      BY <2>1, <3>2, <3>3, <3>4
  <2>. QED
    BY <2>3, <2>4, <2>5
<1>. QED
  BY <1>3, <1>4

\* apply_environment() refuses a bad number, and else sets what is given.
LEMMA ApplyEnvironmentIs ==
    ASSUME NEW s \in [Fields -> Values], NEW env \in Environments
    PROVE  ApplyEnvironment(s, env) =
             IF \E field \in DOMAIN env \ Texts : env[field] \notin Nat
             THEN Refused
             ELSE [field \in Fields |-> IF field \in DOMAIN env THEN Meant(env, field) ELSE s[field]]
<1>. DEFINE step(t, i) == IF t = Refused THEN t ELSE Override(t, Variables[i], env)
            e(h) == [i \in 0..Count |-> IF i = 0 THEN s ELSE step(h[i - 1], i)]
            c == CHOOSE h : h = e(h)
            f == [i \in 0..Count |-> AfterVariables(s, env, i)]
            N == {n \in Nat : n <= Count => c[n] = AfterVariables(s, env, n)}
<1>0. Count \in Nat
  BY VariablesAreFields
<1>1. AfterVariables(s, env, 0) = s
  BY DEF AfterVariables, Seen
<1>2. f = e(f)
  <2>1. ASSUME NEW i \in 1..Count PROVE f[i] = step(f[i - 1], i)
    <3>1. i - 1 \in Nat /\ (i - 1) + 1 = i /\ i - 1 \in 0..Count
      BY <1>0
    <3>2. AfterVariables(s, env, i) = step(AfterVariables(s, env, i - 1), i)
      BY <3>1, OneVariable
    <3>. QED
      BY <1>0, <3>1, <3>2
  <2>. QED
    BY <1>0, <1>1, <2>1
<1>3. c = e(c)
  BY <1>2
<1>4. ApplyEnvironment(s, env) = c[Count]
  BY DEF ApplyEnvironment, Count
<1>. HIDE DEF c
<1>5. c[0] = s /\ \A i \in 1..Count : c[i] = step(c[i - 1], i)
  BY <1>0, <1>3
<1>6. 0 \in N
  BY <1>1, <1>5
<1>7. ASSUME NEW n \in Nat, n \in N PROVE n + 1 \in N
  <2>. SUFFICES ASSUME n + 1 <= Count PROVE c[n + 1] = AfterVariables(s, env, n + 1)
    OBVIOUS
  <2>1. c[n] = AfterVariables(s, env, n) /\ c[n + 1] = step(c[n], n + 1)
    BY <1>0, <1>5, <1>7
  <2>. QED
    BY <2>1, OneVariable
<1>8. c[Count] = AfterVariables(s, env, Count)
  <2>. HIDE DEF N
  <2>1. Nat \subseteq N
    BY <1>6, <1>7, SetInduction
  <2>. QED
    BY <1>0, <2>1 DEF N
<1>. QED
  BY <1>4, <1>8, AllSeen DEF AfterVariables
-----------------------------------------------------------------------------
(* load(). *)

\* The settings that must not be zero are those that validate() looks at.
LEMMA Validated ==
    ASSUME NEW s
    PROVE  Validate(s) <=> \A field \in Fields \ (Texts \cup MayBeZero) : s[field] # 0
<1>1. Fields \ (Texts \cup MayBeZero) =
        {"max_open_databases", "reader_connections", "cleanup_interval_seconds",
         "checkpoint_interval_seconds", "cache_size_kb", "writer_cache_size_kb",
         "reader_cache_size_kb", "max_concurrent_requests",
         "max_concurrent_requests_per_database", "max_result_rows", "body_limit_bytes"}
  BY SMT DEF Fields, Default, Texts, MayBeZero
<1>. QED
  BY <1>1 DEF Validate

\* load() is what LoadIsAsGiven says.
LEMMA LoadIs ==
    ASSUME NEW file \in Files, NEW env \in Environments
    PROVE  Load(file, env) =
             IF WellFormed(file, env) /\ ~NeedsMore(file, env)
             THEN [field \in Fields |-> InForce(file, env, field)]
             ELSE Refused
<1>. DEFINE s == ApplyEnvironment(WithDefaults(file), env)
            given == [field \in Fields |-> InForce(file, env, field)]
<1>1. WithDefaults(file) \in [Fields -> Values]
  BY FileOnDefault
<1>2. Malformed \in Range(file) <=> \E field \in DOMAIN file : file[field] = Malformed
  BY DEF Range
<1>3. CASE \E field \in DOMAIN file : file[field] = Malformed
  BY <1>2, <1>3 DEF Load, WellFormed
<1>4. CASE \E field \in DOMAIN env \ Texts : env[field] \notin Nat
  <2>1. s = Refused
    BY <1>1, <1>4, ApplyEnvironmentIs
  <2>. QED
    BY <1>4, <2>1 DEF Load, WellFormed
<1>5. CASE WellFormed(file, env)
  <2>1. \A field \in DOMAIN env \ Texts : env[field] \in Nat
    BY <1>5 DEF WellFormed
  <2>2. s = [field \in Fields |-> IF field \in DOMAIN env THEN Meant(env, field)
                                  ELSE WithDefaults(file)[field]]
    BY <1>1, <2>1, ApplyEnvironmentIs
  <2>3. s = given
    BY <2>2 DEF InForce, Meant
  <2>4. s # Refused
    <3>1. s = AfterVariables(WithDefaults(file), env, Count)
      BY <2>1, <2>2, AllSeen DEF AfterVariables
    <3>2. Count \in 0..Count
      BY VariablesAreFields
    <3>. QED
      BY <1>1, <2>1, <3>1, <3>2, AllSeen, SettingsAreNotRefused
  <2>5. Validate(s) <=> ~NeedsMore(file, env)
    BY <2>3, Validated DEF NeedsMore
  <2>. QED
    BY <1>2, <1>5, <2>3, <2>4, <2>5 DEF Load, WellFormed
<1>. QED
  BY <1>3, <1>4, <1>5 DEF WellFormed

\* A number in force is a number, but for the budget that need not be given.
LEMMA InForceIsGood ==
    ASSUME NEW file \in Files, NEW env \in Environments, WellFormed(file, env),
           NEW field \in Fields \ Texts
    PROVE  \/ InForce(file, env, field) \in Nat
           \/ field = "cache_size_kb" /\ InForce(file, env, field) = Unset
<1>1. CASE field \in DOMAIN env
  <2>1. field # "auth_token"
    BY DEF Texts
  <2>. QED
    BY <1>1, <2>1 DEF InForce, WellFormed
<1>2. CASE field \notin DOMAIN env /\ field \in DOMAIN file
  <2>1. file[field] \in Nat
    BY <1>2, SettingsAssumption DEF WellFormed, FileValue
  <2>. QED
    BY <1>2, <2>1 DEF InForce, WithDefaults
<1>3. CASE field \notin DOMAIN env /\ field \notin DOMAIN file
  BY <1>3, DefaultIsGood DEF InForce, WithDefaults
<1>. QED
  BY <1>1, <1>2, <1>3

\* A limit that is not zero and does not overflow is some pages.
LEMMA LimitIsPages ==
    ASSUME NEW w \in 1..((Word - 1) \div BYTES_PER_MB)
    PROVE  ((w * BYTES_PER_MB) % Word) \div DEFAULT_PAGE_SIZE > 0
<1>1. Word \in Nat \ {0}
  BY SettingsAssumption
<1>2. w * 1048576 \in 1048576..(Word - 1)
  BY <1>1, SMT DEF BYTES_PER_MB
<1>3. (w * 1048576) % Word = w * 1048576
  BY <1>1, <1>2, SMT
<1>4. (w * 1048576) \div 4096 > 0
  BY <1>2, SMT
<1>. QED
  BY <1>3, <1>4, SMT DEF BYTES_PER_MB, DEFAULT_PAGE_SIZE

\* The server can work with what is loaded.
LEMMA LoadedServes == AcceptedServes
<1>. SUFFICES ASSUME NEW file \in Files, NEW env \in Environments,
                     NEW s, s = Load(file, env), s # Refused
              PROVE  /\ {s.max_open_databases, s.max_concurrent_requests, s.reader_connections,
                         s.max_concurrent_requests_per_database, s.cleanup_interval_seconds,
                         s.checkpoint_interval_seconds, s.max_result_rows,
                         WriterCache(s), ReaderCache(s)} \subseteq Nat \ {0}
                     /\ s.idle_timeout_seconds \in Nat
                     /\ s.wal_size_limit_mb \in 1..((Word - 1) \div BYTES_PER_MB)
                          => Autocheckpoint(s) > 0
  BY DEF AcceptedServes
<1>1. /\ WellFormed(file, env) /\ ~NeedsMore(file, env)
      /\ s = [field \in Fields |-> InForce(file, env, field)]
  BY LoadIs
<1>2. \A field \in Fields \ Texts : s[field] \in Nat \/ (field = "cache_size_kb" /\ s[field] = Unset)
  BY <1>1, InForceIsGood
<1>3. \A field \in Fields \ (Texts \cup MayBeZero) : s[field] # 0
  BY <1>1 DEF NeedsMore
<1>4. {"max_open_databases", "max_concurrent_requests", "reader_connections",
       "max_concurrent_requests_per_database", "cleanup_interval_seconds",
       "checkpoint_interval_seconds", "max_result_rows", "writer_cache_size_kb",
       "reader_cache_size_kb", "cache_size_kb"} \subseteq Fields \ (Texts \cup MayBeZero)
  BY SMT DEF Fields, Default, Texts, MayBeZero
<1>5. {s.max_open_databases, s.max_concurrent_requests, s.reader_connections,
       s.max_concurrent_requests_per_database, s.cleanup_interval_seconds,
       s.checkpoint_interval_seconds, s.max_result_rows,
       s.writer_cache_size_kb, s.reader_cache_size_kb} \subseteq Nat \ {0}
  BY <1>2, <1>3, <1>4
<1>6. {WriterCache(s), ReaderCache(s)} \subseteq Nat \ {0}
  <2>1. s.cache_size_kb = Unset \/ s.cache_size_kb \in Nat \ {0}
    BY <1>2, <1>3, <1>4
  <2>. QED
    BY <1>5, <2>1 DEF WriterCache, ReaderCache, LegacyOr
<1>7. s.idle_timeout_seconds \in Nat
  <2>1. "idle_timeout_seconds" \in Fields \ Texts
    BY SMT DEF Fields, Default, Texts
  <2>. QED
    BY <1>2, <2>1
<1>8. s.wal_size_limit_mb \in 1..((Word - 1) \div BYTES_PER_MB) => Autocheckpoint(s) > 0
  BY LimitIsPages DEF Autocheckpoint, WalLimitBytes
<1>. QED
  BY <1>5, <1>6, <1>7, <1>8
-----------------------------------------------------------------------------
(* What holds of every file and environment. *)

\* Every setting is the variable's, or else the file's, or else the default; and
\* nothing else refuses to start than a malformed value or a zero in force.
THEOREM LoadCorrect == LoadIsAsGiven /\ (Spec => []LoadMeetsReference)
<1>1. LoadIsAsGiven
  BY LoadIs DEF LoadIsAsGiven
<1>2. LoadMeetsReference
  BY <1>1 DEF LoadMeetsReference
<1>. QED
  BY <1>1, <1>2, PTL

\* Limits and intervals are positive, each connection has a cache and the WAL an
\* autocheckpoint, unless its limit is zero or overflows.
THEOREM LoadedSettingsCorrect == AcceptedServes /\ (Spec => []LoadedSettingsServe)
<1>1. LoadedSettingsServe
  BY LoadedServes DEF LoadedSettingsServe
<1>. QED
  BY LoadedServes, <1>1, PTL
=============================================================================
