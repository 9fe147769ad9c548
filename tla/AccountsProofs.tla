--------------------------- MODULE AccountsProofs ---------------------------
(***************************************************************************)
(* Theorems about Accounts, for every number of threads, commands, codes   *)
(* and sessions, and all limits.                                           *)
(***************************************************************************)
EXTENDS Accounts, FiniteSetTheorems, TLAPS

----------------------------------------------------------------------------
(* Types.                                                                  *)

ProcessTyped ==
    /\ pc \in [Processes -> Labels] /\ job \in [Processes -> Job]
    /\ \A p \in Processes : Holds(p)

StoreTyped ==
    /\ now \in Nat \ {0}
    /\ admin \in Gens \cup {None}
    /\ codes \in [Codes -> {"absent", "unused", "used"}]
    /\ attempts \in [Rows -> Nat]
    /\ sessions \in [Cookies -> [at : Nat, until : Nat]]
    /\ boot \in [hash : Gens \cup {None}, secret : Gens \cup {None},
                 expires : Nat]
    /\ file \in Gens \cup {None}
    /\ crashes \in Nat
    /\ shown \subseteq Gens /\ torn \in BOOLEAN
    /\ opened \in [Cookies -> [by : Codes \cup {"totp", None}, at : Nat]]
    /\ used \in [Cookies -> Nat]

LEMMA TypeParts == ASSUME ProcessTyped', StoreTyped' PROVE TypeOK'
BY DEF TypeOK, ProcessTyped, StoreTyped

\* What a process may hold where it goes.
Fit(l, j) ==
    /\ l \in Writing \cup SetupLabels => j.gen \in Gens
    /\ l \in {"code", "use"} => j.factor \in Codes
    /\ l = "open" => j.factor # "wrong"
    /\ l \in SessionLabels => j.cookie \in Cookies

LEMMA NoJobTyped == NoJob \in Job
BY DEF NoJob, Job, Factors

LEMMA IdleFits == ASSUME NEW j PROVE "idle" \in Labels /\ Fit("idle", j)
BY DEF Labels, Fit, Writing, SetupLabels, SessionLabels

\* One process moves, the others stay.
LEMMA Moves ==
    ASSUME TypeOK, NEW p \in Processes, NEW l \in Labels, NEW j \in Job,
           GoWith(p, l, j)
    PROVE  /\ pc' \in [Processes -> Labels] /\ job' \in [Processes -> Job]
           /\ pc'[p] = l /\ job'[p] = j
           /\ \A q \in Processes \ {p} : pc'[q] = pc[q] /\ job'[q] = job[q]
BY DEF TypeOK, GoWith

LEMMA MoveTyped ==
    ASSUME TypeOK, NEW p \in Processes, NEW l \in Labels, NEW j \in Job,
           GoWith(p, l, j), Fit(l, j)
    PROVE  ProcessTyped'
<1>1. /\ pc' \in [Processes -> Labels] /\ job' \in [Processes -> Job]
      /\ pc'[p] = l /\ job'[p] = j
      /\ \A q \in Processes \ {p} : pc'[q] = pc[q] /\ job'[q] = job[q]
    BY Moves
<1>2. ASSUME NEW q \in Processes PROVE Holds(q)'
    <2>1. CASE q = p BY <1>1, <2>1 DEF Holds, Fit
    <2>2. CASE q # p BY <1>1, <2>2 DEF Holds, TypeOK
    <2> QED BY <2>1, <2>2
<1> QED BY <1>1, <1>2 DEF ProcessTyped

\* Going on with the same local variables.
LEMMA GoIsGoWith ==
    ASSUME TypeOK, NEW p \in Processes, NEW l, Go(p, l)
    PROVE  GoWith(p, l, job[p]) /\ job[p] \in Job
<1>1. job[p] \in Job /\ job \in [Processes -> Job] BY DEF TypeOK
<1>2. job = [job EXCEPT ![p] = job[p]] BY <1>1
<1> QED BY <1>1, <1>2 DEF Go, GoWith

LEMMA GoTyped ==
    ASSUME TypeOK, NEW p \in Processes, NEW l \in Labels, Go(p, l), Fit(l, job[p])
    PROVE  ProcessTyped'
BY GoIsGoWith, MoveTyped

LEMMA ReturnTyped ==
    ASSUME TypeOK, NEW p \in Processes, Return(p)
    PROVE  ProcessTyped'
BY NoJobTyped, IdleFits, MoveTyped DEF Return

LEMMA StayTyped == ASSUME TypeOK, UNCHANGED process PROVE ProcessTyped'
BY DEF TypeOK, ProcessTyped, process, Holds

LEMMA InitTyped == ASSUME Init PROVE TypeOK
<1>1. pc \in [Processes -> Labels] /\ job \in [Processes -> Job]
    BY NoJobTyped DEF Init, Labels
<1>2. ASSUME NEW p \in Processes PROVE Holds(p)
    BY DEF Init, Holds, Writing, SetupLabels, SessionLabels
<1>3. sessions \in [Cookies -> [at : Nat, until : Nat]] BY DEF Init, NoRow
<1>4. opened \in [Cookies -> [by : Codes \cup {"totp", None}, at : Nat]]
    BY DEF Init
<1>5. /\ boot \in [hash : Gens \cup {None}, secret : Gens \cup {None},
                   expires : Nat]
      /\ codes \in [Codes -> {"absent", "unused", "used"}]
      /\ attempts \in [Rows -> Nat] /\ used \in [Cookies -> Nat]
    BY DEF Init, NoBoot
<1>0. now = 1 /\ admin = None /\ file = None /\ crashes = 0 /\ shown = {}
      /\ torn = FALSE
    BY DEF Init
<1>6. /\ now \in Nat \ {0} /\ admin \in Gens \cup {None}
      /\ file \in Gens \cup {None} /\ crashes \in Nat
      /\ shown \subseteq Gens
    BY <1>0
<1>7. torn \in BOOLEAN BY <1>0
<1> QED BY <1>1, <1>2, <1>3, <1>4, <1>5, <1>6, <1>7 DEF TypeOK

LEMMA BootstrapTyped ==
    ASSUME TypeOK, NEW p \in Commands, Bootstrap(p)
    PROVE  TypeOK'
<1>0. p \in Processes BY DEF Processes
<1>1. CASE BootstrapReadExpires(p)
    <2> DEFINE j == [NoJob EXCEPT !.at = boot.expires]
    <2>1. j \in Job BY NoJobTyped DEF TypeOK, Job
    <2>2. "file" \in Labels /\ Fit("file", j)
        BY DEF Labels, Fit, Writing, SetupLabels, SessionLabels
    <2>3. ProcessTyped'
        BY <1>0, <1>1, <2>1, <2>2, MoveTyped DEF BootstrapReadExpires
    <2>4. StoreTyped'
        BY <1>1 DEF BootstrapReadExpires, store, history, TypeOK, StoreTyped
    <2> QED BY <2>3, <2>4, TypeParts
<1>2. CASE BootstrapReadFile(p)
    <2>1. CASE file # None /\ job[p].at > now
        <3>1. ProcessTyped' BY <1>0, <1>2, <2>1, ReturnTyped DEF BootstrapReadFile
        <3>2. StoreTyped'
            BY <1>2, <2>1 DEF BootstrapReadFile, store, TypeOK, StoreTyped
        <3> QED BY <3>1, <3>2, TypeParts
    <2>2. CASE ~ (file # None /\ job[p].at > now)
        <3>1. PICK g \in Gens :
                 GoWith(p, "hash",
                        [NoJob EXCEPT !.gen = g, !.at = now + Lifetime])
            BY <1>2, <2>2 DEF BootstrapReadFile
        <3> DEFINE j == [NoJob EXCEPT !.gen = g, !.at = now + Lifetime]
        <3>2. j \in Job /\ j.gen = g
            <4>1. now + Lifetime \in Nat BY TimesAssumption DEF TypeOK
            <4> QED BY <4>1, NoJobTyped DEF Job, NoJob
        <3>3. "hash" \in Labels /\ Fit("hash", j)
            BY <3>2 DEF Labels, Fit, Writing, SetupLabels, SessionLabels
        <3>4. ProcessTyped' BY <1>0, <3>1, <3>2, <3>3, MoveTyped
        <3>5. StoreTyped'
            BY <1>2, <2>2 DEF BootstrapReadFile, store, TypeOK, StoreTyped
        <3> QED BY <3>4, <3>5, TypeParts
    <2> QED BY <2>1, <2>2
<1>3. CASE SetHash(p)
    <2>0. job[p].gen \in Gens
        BY <1>0, <1>3 DEF SetHash, TypeOK, Holds, Writing
    <2>1. "secret" \in Labels /\ Fit("secret", job[p])
        BY <2>0 DEF Labels, Fit, Writing, SetupLabels, SessionLabels
    <2>2. ProcessTyped' BY <1>0, <1>3, <2>1, GoTyped DEF SetHash
    <2>3. StoreTyped' BY <1>3, <2>0 DEF SetHash, history, TypeOK, StoreTyped
    <2> QED BY <2>2, <2>3, TypeParts
<1>4. CASE SetSecret(p)
    <2>0. job[p].gen \in Gens
        BY <1>0, <1>4 DEF SetSecret, TypeOK, Holds, Writing
    <2>1. "expires" \in Labels /\ Fit("expires", job[p])
        BY <2>0 DEF Labels, Fit, Writing, SetupLabels, SessionLabels
    <2>2. ProcessTyped' BY <1>0, <1>4, <2>1, GoTyped DEF SetSecret
    <2>3. StoreTyped' BY <1>4, <2>0 DEF SetSecret, history, TypeOK, StoreTyped
    <2> QED BY <2>2, <2>3, TypeParts
<1>5. CASE SetExpires(p)
    <2>0. job[p].gen \in Gens
        BY <1>0, <1>5 DEF SetExpires, TypeOK, Holds, Writing
    <2>1. "truncate" \in Labels /\ Fit("truncate", job[p])
        BY <2>0 DEF Labels, Fit, Writing, SetupLabels, SessionLabels
    <2>2. ProcessTyped' BY <1>0, <1>5, <2>1, GoTyped DEF SetExpires
    <2>3. StoreTyped'
        <3>1. job[p].at \in Nat BY <1>0 DEF TypeOK, Job
        <3> QED BY <1>5, <3>1 DEF SetExpires, history, TypeOK, StoreTyped
    <2> QED BY <2>2, <2>3, TypeParts
<1>6. CASE TruncateFile(p)
    <2>0. job[p].gen \in Gens
        BY <1>0, <1>6 DEF TruncateFile, TypeOK, Holds, Writing
    <2>1. "write" \in Labels /\ Fit("write", job[p])
        BY <2>0 DEF Labels, Fit, Writing, SetupLabels, SessionLabels
    <2>2. ProcessTyped' BY <1>0, <1>6, <2>1, GoTyped DEF TruncateFile
    <2>3. StoreTyped' BY <1>6 DEF TruncateFile, history, TypeOK, StoreTyped
    <2> QED BY <2>2, <2>3, TypeParts
<1>7. CASE WriteFile(p)
    <2>0. job[p].gen \in Gens
        BY <1>0, <1>7 DEF WriteFile, TypeOK, Holds, Writing
    <2>1. ProcessTyped' BY <1>0, <1>7, ReturnTyped DEF WriteFile
    <2>2. StoreTyped' BY <1>7, <2>0 DEF WriteFile, TypeOK, StoreTyped
    <2> QED BY <2>1, <2>2, TypeParts
<1> QED BY <1>1, <1>2, <1>3, <1>4, <1>5, <1>6, <1>7 DEF Bootstrap

LEMMA SetupTyped ==
    ASSUME TypeOK, NEW t \in Threads,
           \/ \E g \in shown : Setup(t, g)
           \/ ReadHash(t) \/ ReadExpires(t) \/ ReadSecret(t)
           \/ CreateAdmin(t) \/ Unlink(t)
    PROVE  TypeOK'
<1>0. t \in Processes BY DEF Processes
<1>1. ASSUME NEW g \in shown, Setup(t, g) PROVE TypeOK'
    <2> DEFINE j == [NoJob EXCEPT !.gen = g]
    <2>1. j \in Job /\ j.gen \in Gens BY NoJobTyped DEF Job, NoJob, TypeOK
    <2>2. "read hash" \in Labels /\ Fit("read hash", j)
        BY <2>1 DEF Labels, Fit, Writing, SetupLabels, SessionLabels
    <2>3. ProcessTyped' BY <1>0, <1>1, <2>1, <2>2, MoveTyped DEF Setup
    <2>4. StoreTyped' BY <1>1 DEF Setup, store, history, TypeOK, StoreTyped
    <2> QED BY <2>3, <2>4, TypeParts
<1>2. CASE ReadHash(t)
    <2>0. job[t].gen \in Gens
        BY <1>0, <1>2 DEF ReadHash, TypeOK, Holds, SetupLabels
    <2>1. "read expires" \in Labels /\ Fit("read expires", job[t])
        BY <2>0 DEF Labels, Fit, Writing, SetupLabels, SessionLabels
    <2>2. ProcessTyped' BY <1>0, <1>2, <2>1, GoTyped, ReturnTyped DEF ReadHash
    <2>3. StoreTyped' BY <1>2 DEF ReadHash, store, history, TypeOK, StoreTyped
    <2> QED BY <2>2, <2>3, TypeParts
<1>3. CASE ReadExpires(t)
    <2> DEFINE j == [job[t] EXCEPT !.at = boot.expires]
    <2>0. job[t].gen \in Gens /\ job[t] \in Job
        BY <1>0, <1>3 DEF ReadExpires, TypeOK, Holds, SetupLabels
    <2>1. j \in Job /\ j.gen \in Gens BY <2>0 DEF Job, TypeOK
    <2>2. "read secret" \in Labels /\ Fit("read secret", j)
        BY <2>1 DEF Labels, Fit, Writing, SetupLabels, SessionLabels
    <2>3. ProcessTyped' BY <1>0, <1>3, <2>1, <2>2, MoveTyped DEF ReadExpires
    <2>4. StoreTyped'
        BY <1>3 DEF ReadExpires, store, history, TypeOK, StoreTyped
    <2> QED BY <2>3, <2>4, TypeParts
<1>4. CASE ReadSecret(t)
    <2> DEFINE j == [job[t] EXCEPT !.gen = boot.secret]
    <2>0. job[t].gen \in Gens /\ job[t] \in Job
        BY <1>0, <1>4 DEF ReadSecret, TypeOK, Holds, SetupLabels
    <2>1. ASSUME job[t].at > now, boot.secret = job[t].gen PROVE ProcessTyped'
        <3>1. j \in Job /\ j.gen \in Gens BY <2>0, <2>1 DEF Job, TypeOK
        <3>2. "create" \in Labels /\ Fit("create", j)
            BY <3>1 DEF Labels, Fit, Writing, SetupLabels, SessionLabels
        <3>3. GoWith(t, "create", j) BY <1>4, <2>1 DEF ReadSecret
        <3> QED BY <1>0, <3>1, <3>2, <3>3, MoveTyped
    <2>2. ASSUME ~ (job[t].at > now /\ boot.secret = job[t].gen)
          PROVE  ProcessTyped'
        BY <1>0, <1>4, <2>2, ReturnTyped DEF ReadSecret
    <2>3. StoreTyped'
        BY <1>4 DEF ReadSecret, store, history, TypeOK, StoreTyped
    <2>4. ProcessTyped' BY <2>1, <2>2
    <2> QED BY <2>3, <2>4, TypeParts
<1>5. CASE CreateAdmin(t)
    <2>0. job[t].gen \in Gens
        BY <1>0, <1>5 DEF CreateAdmin, TypeOK, Holds, SetupLabels
    <2>1. "unlink" \in Labels /\ Fit("unlink", job[t])
        BY <2>0 DEF Labels, Fit, Writing, SetupLabels, SessionLabels
    <2>2. ProcessTyped'
        BY <1>0, <1>5, <2>1, GoTyped, ReturnTyped DEF CreateAdmin
    <2>3. StoreTyped'
        BY <1>5, <2>0 DEF CreateAdmin, history, TypeOK, StoreTyped, NoBoot
    <2> QED BY <2>2, <2>3, TypeParts
<1>6. CASE Unlink(t)
    <2>1. ProcessTyped' BY <1>0, <1>6, ReturnTyped DEF Unlink
    <2>2. StoreTyped' BY <1>6 DEF Unlink, history, TypeOK, StoreTyped
    <2> QED BY <2>1, <2>2, TypeParts
<1> QED BY <1>1, <1>2, <1>3, <1>4, <1>5, <1>6

LEMMA LoginTyped ==
    ASSUME TypeOK, NEW t \in Threads,
           \/ \E factor \in Factors : CheckRateLimit(t, factor)
           \/ ReadAdmin(t) \/ ReadCode(t) \/ UseCode(t)
           \/ RecordFailure(t) \/ OpenSession(t)
    PROVE  TypeOK'
<1>0. t \in Processes /\ job[t] \in Job BY DEF Processes, TypeOK
<1>1. ASSUME NEW factor \in Factors, CheckRateLimit(t, factor) PROVE TypeOK'
    <2> DEFINE j == [NoJob EXCEPT !.factor = factor]
    <2>1. j \in Job BY NoJobTyped DEF Job, NoJob
    <2>2. "admin" \in Labels /\ Fit("admin", j)
        BY DEF Labels, Fit, Writing, SetupLabels, SessionLabels, LoginLabels
    <2>3. ProcessTyped'
        <3>1. CASE Cardinality(Failures) >= Limit
            BY <1>1, <3>1, StayTyped DEF CheckRateLimit
        <3>2. CASE ~ (Cardinality(Failures) >= Limit)
            <4>1. GoWith(t, "admin", j) BY <1>1, <3>2 DEF CheckRateLimit
            <4> QED BY <1>0, <2>1, <2>2, <4>1, MoveTyped
        <3> QED BY <3>1, <3>2
    <2>4. attempts' \in [Rows -> Nat]
        BY <1>1 DEF CheckRateLimit, Purged, TypeOK
    <2>5. StoreTyped'
        BY <1>1, <2>4 DEF CheckRateLimit, history, TypeOK, StoreTyped
    <2> QED BY <2>3, <2>5, TypeParts
<1>2. CASE ReadAdmin(t)
    <2>1. ASSUME Go(t, "record") PROVE ProcessTyped'
        BY <1>0, <2>1, GoTyped
        DEF Labels, Fit, Writing, SetupLabels, SessionLabels, LoginLabels
    <2>2. ASSUME Go(t, "open"), job[t].factor # "wrong" PROVE ProcessTyped'
        BY <1>0, <2>2, GoTyped
        DEF Labels, Fit, Writing, SetupLabels, SessionLabels, LoginLabels
    <2>3. ASSUME Go(t, "code"), job[t].factor \notin {"wrong", "totp"}
          PROVE  ProcessTyped'
        <3>1. job[t].factor \in Codes BY <1>0, <2>3 DEF Job, Factors
        <3> QED BY <1>0, <2>3, <3>1, GoTyped
                DEF Labels, Fit, Writing, SetupLabels, SessionLabels, LoginLabels
    <2>4. ProcessTyped' BY <1>2, <2>1, <2>2, <2>3 DEF ReadAdmin
    <2>5. StoreTyped' BY <1>2 DEF ReadAdmin, store, history, TypeOK, StoreTyped
    <2> QED BY <2>4, <2>5, TypeParts
<1>3. CASE ReadCode(t)
    <2>1. job[t].factor \in Codes BY <1>0, <1>3 DEF ReadCode, TypeOK, Holds
    <2>2. ASSUME NEW l \in {"use", "record"}, Go(t, l) PROVE ProcessTyped'
        BY <1>0, <2>1, <2>2, GoTyped
        DEF Labels, Fit, Writing, SetupLabels, SessionLabels, LoginLabels
    <2>3. ProcessTyped' BY <1>3, <2>2 DEF ReadCode
    <2>4. StoreTyped' BY <1>3 DEF ReadCode, store, history, TypeOK, StoreTyped
    <2> QED BY <2>3, <2>4, TypeParts
<1>4. CASE UseCode(t)
    <2>1. job[t].factor \in Codes BY <1>0, <1>4 DEF UseCode, TypeOK, Holds
    <2>2. job[t].factor # "wrong" BY <2>1, SetsAssumption
    <2>3. ASSUME NEW l \in {"open", "record"}, Go(t, l) PROVE ProcessTyped'
        BY <1>0, <2>2, <2>3, GoTyped
        DEF Labels, Fit, Writing, SetupLabels, SessionLabels, LoginLabels
    <2>4. ProcessTyped' BY <1>4, <2>3 DEF UseCode
    <2>5. StoreTyped' BY <1>4 DEF UseCode, history, TypeOK, StoreTyped
    <2> QED BY <2>4, <2>5, TypeParts
<1>5. CASE RecordFailure(t)
    <2>1. ProcessTyped' BY <1>0, <1>5, ReturnTyped DEF RecordFailure
    <2>2. attempts' \in [Rows -> Nat] BY <1>5 DEF RecordFailure, TypeOK
    <2>3. StoreTyped' BY <1>5, <2>2 DEF RecordFailure, history, TypeOK, StoreTyped
    <2> QED BY <2>1, <2>3, TypeParts
<1>6. CASE OpenSession(t)
    <2>1. ProcessTyped' BY <1>0, <1>6, ReturnTyped DEF OpenSession
    <2>2. job[t].factor \in Codes \cup {"totp"}
        BY <1>0, <1>6 DEF OpenSession, TypeOK, Holds, Job, Factors
    <2>3. /\ sessions' \in [Cookies -> [at : Nat, until : Nat]]
          /\ used' \in [Cookies -> Nat]
        BY <1>6, TimesAssumption DEF OpenSession, TypeOK
    <2>4. opened' \in [Cookies -> [by : Codes \cup {"totp", None}, at : Nat]]
        BY <1>6, <2>2 DEF OpenSession, TypeOK
    <2>5. StoreTyped' BY <1>6, <2>3, <2>4 DEF OpenSession, TypeOK, StoreTyped
    <2> QED BY <2>1, <2>5, TypeParts
<1> QED BY <1>1, <1>2, <1>3, <1>4, <1>5, <1>6

LEMMA DeleteTyped ==
    ASSUME TypeOK, NEW c \in Cookies, Delete(c)
    PROVE  /\ sessions' \in [Cookies -> [at : Nat, until : Nat]]
           /\ opened' \in [Cookies -> [by : Codes \cup {"totp", None}, at : Nat]]
           /\ used' \in [Cookies -> Nat]
BY DEF Delete, TypeOK, NoRow

LEMMA SessionTyped ==
    ASSUME TypeOK, NEW t \in Threads,
           \/ \E c \in Cookies, logout \in BOOLEAN : Request(t, c, logout)
           \/ DropSession(t) \/ Touch(t) \/ Logout(t)
    PROVE  TypeOK'
<1>0. t \in Processes /\ job[t] \in Job BY DEF Processes, TypeOK
<1>1. ASSUME NEW c \in Cookies, NEW logout \in BOOLEAN, Request(t, c, logout)
      PROVE  TypeOK'
    <2> DEFINE j == [NoJob EXCEPT !.cookie = c, !.at = now, !.logout = logout]
    <2>1. j \in Job /\ j.cookie = c BY NoJobTyped DEF Job, NoJob, TypeOK
    <2>2. ASSUME NEW l \in {"drop", "touch"}, GoWith(t, l, j)
          PROVE  ProcessTyped'
        <3>1. l \in Labels /\ Fit(l, j)
            BY <2>1 DEF Labels, Fit, Writing, SetupLabels, SessionLabels
        <3> QED BY <1>0, <2>1, <2>2, <3>1, MoveTyped
    <2>3. \E l \in {"drop", "touch"} : GoWith(t, l, j)
        BY <1>1 DEF Request
    <2>4. StoreTyped' BY <1>1 DEF Request, store, TypeOK, StoreTyped
    <2> HIDE DEF j
    <2> QED BY <2>2, <2>3, <2>4, TypeParts
<1>2. CASE DropSession(t)
    <2>1. job[t].cookie \in Cookies
        BY <1>0, <1>2 DEF DropSession, TypeOK, Holds, SessionLabels
    <2>2. ProcessTyped' BY <1>0, <1>2, ReturnTyped DEF DropSession
    <2>3. StoreTyped'
        BY <1>2, <2>1, DeleteTyped DEF DropSession, TypeOK, StoreTyped
    <2> QED BY <2>2, <2>3, TypeParts
<1>3. CASE Touch(t)
    <2>1. job[t].cookie \in Cookies
        BY <1>0, <1>3 DEF Touch, TypeOK, Holds, SessionLabels
    <2>2. "logout" \in Labels /\ Fit("logout", job[t])
        BY <2>1 DEF Labels, Fit, Writing, SetupLabels, SessionLabels
    <2>3. ProcessTyped' BY <1>0, <1>3, <2>2, GoTyped, ReturnTyped DEF Touch
    <2>4. sessions' \in [Cookies -> [at : Nat, until : Nat]]
        BY <1>0, <1>3, <2>1 DEF Touch, Seen, TypeOK, Job
    <2>5. StoreTyped' BY <1>3, <2>4 DEF Touch, history, TypeOK, StoreTyped
    <2> QED BY <2>3, <2>5, TypeParts
<1>4. CASE Logout(t)
    <2>1. job[t].cookie \in Cookies
        BY <1>0, <1>4 DEF Logout, TypeOK, Holds, SessionLabels
    <2>2. ProcessTyped' BY <1>0, <1>4, ReturnTyped DEF Logout
    <2>3. StoreTyped' BY <1>4, <2>1, DeleteTyped DEF Logout, TypeOK, StoreTyped
    <2> QED BY <2>2, <2>3, TypeParts
<1> QED BY <1>1, <1>2, <1>3, <1>4

LEMMA CrashTyped ==
    ASSUME TypeOK, NEW P \in SUBSET Processes, Crash(P)
    PROVE  TypeOK'
<1>1. pc' \in [Processes -> Labels] /\ job' \in [Processes -> Job]
    BY NoJobTyped DEF Crash, TypeOK, Labels
<1>2. ASSUME NEW p \in Processes PROVE Holds(p)'
    <2>1. CASE p \in P
        BY <2>1 DEF Crash, Holds, Writing, SetupLabels, SessionLabels
    <2>2. CASE p \notin P BY <2>2 DEF Crash, Holds, TypeOK
    <2> QED BY <2>1, <2>2
<1>3. StoreTyped'
    BY TimesAssumption DEF Crash, store, TypeOK, StoreTyped
<1> QED BY <1>1, <1>2, <1>3, TypeParts DEF ProcessTyped

LEMMA TickTyped == ASSUME TypeOK, Tick PROVE TypeOK'
<1>1. ProcessTyped' BY StayTyped DEF Tick
<1>2. StoreTyped' BY DEF Tick, store, history, TypeOK, StoreTyped
<1> QED BY <1>1, <1>2, TypeParts

LEMMA NextTyped == ASSUME TypeOK, [Next]_vars PROVE TypeOK'
<1>1. ASSUME NEW t \in Threads, Handle(t) PROVE TypeOK'
    BY <1>1, SetupTyped, LoginTyped, SessionTyped DEF Handle
<1>2. ASSUME NEW p \in Commands, Bootstrap(p) PROVE TypeOK'
    BY <1>2, BootstrapTyped
<1>3. ASSUME NEW p \in Commands, Crash({p}) PROVE TypeOK'
    BY <1>3, CrashTyped DEF Processes
<1>4. CASE Crash(Threads) BY <1>4, CrashTyped DEF Processes
<1>5. CASE Tick BY <1>5, TickTyped
<1>6. CASE UNCHANGED vars
    BY <1>6 DEF vars, store, process, history, TypeOK, Holds
<1> QED BY <1>1, <1>2, <1>3, <1>4, <1>5, <1>6 DEF Next

\* Type correctness, and that a process in the middle of a handler holds what the
\* rest of the handler works on (Store's methods, command_bootstrap).
THEOREM TypeCorrect == Spec => []TypeOK
BY InitTyped, NextTyped, PTL DEF Spec

----------------------------------------------------------------------------
(* Steps: who moves where, and which step writes what.                     *)

Asks(t) == \E c \in Cookies, logout \in BOOLEAN : Request(t, c, logout)
Checks(t) == \E factor \in Factors : CheckRateLimit(t, factor)

SetupMove(t) ==
    \/ pc'[t] = "read hash" /\ job'[t].gen \in shown
    \/ /\ pc[t] \in SetupLabels /\ job'[t].gen = job[t].gen
       /\ pc'[t] \in {"read expires", "read secret", "create"}
    \/ pc'[t] = "unlink" /\ CreateAdmin(t) /\ admin' # None /\ job'[t] = job[t]

LoginMove(t) ==
    \/ pc'[t] = "admin" /\ Checks(t)
    \/ /\ pc[t] \in LoginLabels /\ pc'[t] \in LoginLabels /\ job'[t] = job[t]
    \/ /\ pc[t] = "admin" /\ ReadAdmin(t) /\ pc'[t] = "open"
       /\ job'[t] = job[t] /\ job[t].factor = "totp"
    \/ pc[t] = "use" /\ UseCode(t) /\ pc'[t] = "open" /\ job'[t] = job[t]

SessionMove(t) ==
    \/ /\ Asks(t) /\ pc'[t] \in {"drop", "touch"}
       /\ job'[t].cookie \in Cookies /\ job'[t].at = now
       /\ opened' = opened /\ used'[job'[t].cookie] \in {now, used[job'[t].cookie]}
       /\ pc'[t] = "touch" => used'[job'[t].cookie] = now
       /\ sessions[job'[t].cookie] # NoRow /\ sessions' = sessions
    \/ pc[t] = "touch" /\ pc'[t] = "logout" /\ job'[t] = job[t]

OthersStay(p) ==
    \A q \in Processes \ {p} : pc'[q] = pc[q] /\ job'[q] = job[q]

LEMMA StayShape ==
    ASSUME UNCHANGED process, NEW p \in Processes
    PROVE  OthersStay(p) /\ pc'[p] = pc[p] /\ job'[p] = job[p]
BY DEF process, OthersStay

LEMMA GoShape ==
    ASSUME TypeOK, NEW p \in Processes, NEW l, Go(p, l)
    PROVE  OthersStay(p) /\ pc'[p] = l /\ job'[p] = job[p]
BY DEF TypeOK, Go, OthersStay

LEMMA GoWithShape ==
    ASSUME TypeOK, NEW p \in Processes, NEW l, NEW j, GoWith(p, l, j)
    PROVE  OthersStay(p) /\ pc'[p] = l /\ job'[p] = j
BY DEF TypeOK, GoWith, OthersStay

LEMMA ReturnShape ==
    ASSUME TypeOK, NEW p \in Processes, Return(p)
    PROVE  OthersStay(p) /\ pc'[p] = "idle"
BY GoWithShape DEF Return

\* A step of a thread's handler.
LEMMA HandleShape ==
    ASSUME TypeOK, NEW t \in Threads, Handle(t)
    PROVE  /\ OthersStay(t)
           /\ \/ pc'[t] = pc[t] /\ job'[t] = job[t]
              \/ pc'[t] = "idle"
              \/ SetupMove(t) \/ LoginMove(t) \/ SessionMove(t)
<1>0. t \in Processes BY DEF Processes
<1>1. ASSUME NEW g \in shown, Setup(t, g)
      PROVE  OthersStay(t) /\ SetupMove(t)
    <2> DEFINE j == [NoJob EXCEPT !.gen = g]
    <2>1. j.gen = g BY DEF NoJob
    <2>2. GoWith(t, "read hash", j) BY <1>1 DEF Setup
    <2> HIDE DEF j
    <2>3. OthersStay(t) /\ pc'[t] = "read hash" /\ job'[t] = j
        BY <1>0, <2>2, GoWithShape
    <2> QED BY <2>1, <2>3 DEF SetupMove
<1>2. ASSUME ReadHash(t)
      PROVE  OthersStay(t) /\ (pc'[t] = "idle" \/ SetupMove(t))
    <2>1. pc[t] = "read hash" /\ (Go(t, "read expires") \/ Return(t))
        BY <1>2 DEF ReadHash
    <2> QED BY <1>0, <2>1, GoShape, ReturnShape DEF SetupMove, SetupLabels
<1>3. ASSUME ReadExpires(t)
      PROVE  OthersStay(t) /\ SetupMove(t)
    <2> DEFINE j == [job[t] EXCEPT !.at = boot.expires]
    <2>1. job[t] \in Job BY <1>0 DEF TypeOK
    <2>2. j.gen = job[t].gen BY <2>1 DEF Job
    <2> QED BY <1>0, <1>3, <2>2, GoWithShape
            DEF ReadExpires, SetupMove, SetupLabels
<1>4. ASSUME ReadSecret(t)
      PROVE  OthersStay(t) /\ (pc'[t] = "idle" \/ SetupMove(t))
    <2>1. job[t] \in Job BY <1>0 DEF TypeOK
    <2>2. ASSUME boot.secret = job[t].gen,
                 GoWith(t, "create", [job[t] EXCEPT !.gen = boot.secret])
          PROVE  OthersStay(t) /\ SetupMove(t)
        <3> DEFINE j == [job[t] EXCEPT !.gen = boot.secret]
        <3>1. j.gen = job[t].gen BY <2>1, <2>2 DEF Job
        <3>2. GoWith(t, "create", j) BY <2>2
        <3>3. pc[t] = "read secret" BY <1>4 DEF ReadSecret
        <3> HIDE DEF j
        <3>4. OthersStay(t) /\ pc'[t] = "create" /\ job'[t] = j
            BY <1>0, <3>2, GoWithShape
        <3> QED BY <3>1, <3>3, <3>4 DEF SetupMove, SetupLabels
    <2> QED BY <1>0, <1>4, <2>2, ReturnShape DEF ReadSecret
<1>5. ASSUME CreateAdmin(t)
      PROVE  OthersStay(t) /\ (pc'[t] = "idle" \/ SetupMove(t))
    <2>1. job[t].gen \in Gens
        BY <1>0, <1>5 DEF CreateAdmin, TypeOK, Holds, SetupLabels
    <2>2. job[t].gen # None BY <2>1, SetsAssumption
    <2>3. (Go(t, "unlink") /\ admin' = job[t].gen) \/ Return(t)
        BY <1>5 DEF CreateAdmin
    <2> QED BY <1>0, <1>5, <2>2, <2>3, GoShape, ReturnShape DEF SetupMove
<1>6. ASSUME \/ Unlink(t) \/ RecordFailure(t) \/ OpenSession(t)
             \/ DropSession(t) \/ Logout(t)
      PROVE  OthersStay(t) /\ pc'[t] = "idle"
    BY <1>0, <1>6, ReturnShape
    DEF Unlink, RecordFailure, OpenSession, DropSession, Logout
<1>7. ASSUME NEW factor \in Factors, CheckRateLimit(t, factor)
      PROVE  /\ OthersStay(t)
             /\ (pc'[t] = pc[t] /\ job'[t] = job[t]) \/ LoginMove(t)
    BY <1>0, <1>7, StayShape, GoWithShape DEF CheckRateLimit, LoginMove, Checks
<1>8. ASSUME ReadAdmin(t)
      PROVE  OthersStay(t) /\ LoginMove(t)
    BY <1>0, <1>8, GoShape DEF ReadAdmin, LoginMove, LoginLabels
<1>9. ASSUME ReadCode(t)
      PROVE  OthersStay(t) /\ LoginMove(t)
    BY <1>0, <1>9, GoShape DEF ReadCode, LoginMove, LoginLabels
<1>10. ASSUME UseCode(t)
       PROVE  OthersStay(t) /\ LoginMove(t)
    BY <1>0, <1>10, GoShape DEF UseCode, LoginMove, LoginLabels
<1>11. ASSUME NEW c \in Cookies, NEW logout \in BOOLEAN, Request(t, c, logout)
       PROVE  OthersStay(t) /\ SessionMove(t)
    <2> DEFINE j == [NoJob EXCEPT !.cookie = c, !.at = now, !.logout = logout]
    <2>1. j.cookie = c /\ j.at = now BY DEF NoJob
    <2>2. \E l \in {"drop", "touch"} :
              GoWith(t, l, j) /\ (l = "touch" => used'[c] = now)
        BY <1>11 DEF Request, TypeOK
    <2>3. /\ opened' = opened /\ used'[c] \in {now, used[c]}
          /\ sessions[c] # NoRow /\ sessions' = sessions
        BY <1>11 DEF Request, TypeOK, store
    <2> HIDE DEF j
    <2> QED BY <1>0, <1>11, <2>1, <2>2, <2>3, GoWithShape DEF SessionMove, Asks
<1>12. ASSUME Touch(t)
       PROVE  OthersStay(t) /\ (pc'[t] = "idle" \/ SessionMove(t))
    BY <1>0, <1>12, GoShape, ReturnShape DEF Touch, SessionMove
<1> QED BY <1>1, <1>2, <1>3, <1>4, <1>5, <1>6, <1>7, <1>8, <1>9, <1>10, <1>11,
           <1>12 DEF Handle

\* What a step of a handler may write, and which step does.
LEMMA HandleWrites ==
    ASSUME NEW t \in Threads, Handle(t)
    PROVE  /\ now' = now /\ shown' = shown /\ torn' = torn
           /\ admin' = admin \/ CreateAdmin(t)
           /\ codes' = codes \/ CreateAdmin(t) \/ UseCode(t)
           /\ attempts' = attempts \/ Checks(t) \/ RecordFailure(t)
           /\ sessions' = sessions \/ OpenSession(t) \/ DropSession(t)
                 \/ Touch(t) \/ Logout(t)
           /\ opened' = opened \/ OpenSession(t) \/ DropSession(t) \/ Logout(t)
           /\ used' = used \/ OpenSession(t) \/ DropSession(t) \/ Logout(t)
                 \/ Asks(t)
           /\ boot' = boot \/ CreateAdmin(t)
           /\ file' = file \/ Unlink(t)
<1>1. CASE \E g \in shown : Setup(t, g) BY <1>1 DEF Setup, store, history
<1>2. CASE ReadHash(t) BY <1>2 DEF ReadHash, store, history
<1>3. CASE ReadExpires(t) BY <1>3 DEF ReadExpires, store, history
<1>4. CASE ReadSecret(t) BY <1>4 DEF ReadSecret, store, history
<1>5. CASE CreateAdmin(t) BY <1>5 DEF CreateAdmin, history
<1>6. CASE Unlink(t) BY <1>6 DEF Unlink, history
<1>7. CASE Checks(t)
    BY <1>7 DEF Checks, CheckRateLimit, history
<1>8. CASE ReadAdmin(t) BY <1>8 DEF ReadAdmin, store, history
<1>9. CASE ReadCode(t) BY <1>9 DEF ReadCode, store, history
<1>10. CASE UseCode(t) BY <1>10 DEF UseCode, history
<1>11. CASE RecordFailure(t) BY <1>11 DEF RecordFailure, history
<1>12. CASE OpenSession(t) BY <1>12 DEF OpenSession
<1>13. CASE Asks(t) BY <1>13 DEF Asks, Request, store
<1>14. CASE DropSession(t) BY <1>14 DEF DropSession
<1>15. CASE Touch(t) BY <1>15 DEF Touch, history
<1>16. CASE Logout(t) BY <1>16 DEF Logout
<1> QED BY <1>1, <1>2, <1>3, <1>4, <1>5, <1>6, <1>7, <1>8, <1>9, <1>10, <1>11,
           <1>12, <1>13, <1>14, <1>15, <1>16 DEF Handle, Asks, Checks

LEMMA BootstrapShape ==
    ASSUME TypeOK, NEW p \in Commands, Bootstrap(p)
    PROVE  /\ OthersStay(p) /\ pc'[p] \in {"idle", "file"} \cup Writing
           /\ now' = now /\ admin' = admin /\ codes' = codes
           /\ attempts' = attempts /\ sessions' = sessions
           /\ opened' = opened /\ used' = used
           /\ shown \subseteq shown'
<1>0. p \in Processes BY DEF Processes
<1>1. CASE BootstrapReadExpires(p)
    BY <1>0, <1>1, GoWithShape DEF BootstrapReadExpires, store, history
<1>2. CASE BootstrapReadFile(p)
    <2>1. \/ Return(p)
          \/ \E g \in Gens :
                GoWith(p, "hash", [NoJob EXCEPT !.gen = g, !.at = now + Lifetime])
        BY <1>2 DEF BootstrapReadFile
    <2>2. OthersStay(p) /\ pc'[p] \in {"idle", "hash"}
        BY <1>0, <2>1, GoWithShape, ReturnShape
    <2>3. shown \subseteq shown' BY <1>2 DEF BootstrapReadFile
    <2> QED BY <1>2, <2>2, <2>3 DEF BootstrapReadFile, store, Writing
<1>3. CASE SetHash(p)
    BY <1>0, <1>3, GoShape DEF SetHash, history, Writing
<1>4. CASE SetSecret(p)
    BY <1>0, <1>4, GoShape DEF SetSecret, history, Writing
<1>5. CASE SetExpires(p)
    BY <1>0, <1>5, GoShape DEF SetExpires, history, Writing
<1>6. CASE TruncateFile(p)
    BY <1>0, <1>6, GoShape DEF TruncateFile, history, Writing
<1>7. CASE WriteFile(p)
    BY <1>0, <1>7, ReturnShape DEF WriteFile, Writing
<1> QED BY <1>1, <1>2, <1>3, <1>4, <1>5, <1>6, <1>7 DEF Bootstrap

\* A crash, the clock, and a step of something else.
Quiet ==
    /\ \A q \in Processes :
           pc'[q] = "idle" \/ (pc'[q] = pc[q] /\ job'[q] = job[q])
    /\ UNCHANGED <<store, shown, opened, used>>
    /\ now' \in {now, now + 1}

LEMMA CrashQuiet ==
    ASSUME NEW P \in SUBSET Processes, Crash(P)
    PROVE  Quiet
BY DEF Crash, Quiet

LEMMA TickQuiet == ASSUME Tick \/ UNCHANGED vars PROVE Quiet
BY DEF Tick, Quiet, vars, process, history

\* Every step is a command's, a handler's or quiet.
LEMMA StepKinds ==
    ASSUME [Next]_vars
    PROVE  \/ \E p \in Commands : Bootstrap(p)
           \/ \E t \in Threads : Handle(t)
           \/ Quiet
<1>1. ASSUME NEW p \in Commands, Crash({p}) PROVE Quiet
    BY <1>1, CrashQuiet DEF Processes
<1>2. CASE Crash(Threads) BY <1>2, CrashQuiet DEF Processes
<1> QED BY <1>1, <1>2, TickQuiet DEF Next

----------------------------------------------------------------------------
(* Setup.                                                                  *)

SetupInv ==
    /\ \A t \in Threads : pc[t] \in SetupLabels => job[t].gen \in shown
    /\ SecretWasShown
    /\ \A c \in Codes : codes[c] # "absent" => admin # None
    /\ \A t \in Threads : pc[t] = "unlink" => admin # None

\* Who is in a setup has presented what was shown.
LEMMA SetupEntry ==
    ASSUME TypeOK, SetupInv, NEW t \in Threads, Handle(t), NEW u \in Threads,
           pc'[u] \in SetupLabels
    PROVE  job'[u].gen \in shown
<1>1. t \in Processes /\ u \in Processes BY DEF Processes
<1>2. CASE u # t
    BY <1>1, <1>2, HandleShape DEF OthersStay, SetupInv
<1>3. CASE u = t
    <2>1. CASE pc'[t] = pc[t] /\ job'[t] = job[t]
        BY <1>3, <2>1 DEF SetupInv
    <2>2. CASE pc'[t] = "idle" BY <1>3, <2>2 DEF SetupLabels
    <2>3. CASE SetupMove(t)
        <3>1. CASE CreateAdmin(t) /\ job'[t] = job[t]
            BY <1>3, <3>1 DEF SetupInv, CreateAdmin, SetupLabels
        <3> QED BY <1>3, <2>3, <3>1 DEF SetupMove, SetupInv
    <2>4. CASE LoginMove(t)
        BY <1>3, <2>4 DEF LoginMove, LoginLabels, SetupLabels
    <2>5. CASE SessionMove(t) BY <1>3, <2>5 DEF SessionMove, SetupLabels
    <2> QED BY <2>1, <2>2, <2>3, <2>4, <2>5, HandleShape
<1> QED BY <1>2, <1>3

\* Only a setup that finds no administrator writes one.
LEMMA AdminSteps ==
    ASSUME TypeOK, [Next]_vars
    PROVE  \/ admin' = admin
           \/ \E t \in Threads : /\ CreateAdmin(t) /\ admin = None
                                 /\ admin' = job[t].gen
<1>1. ASSUME NEW t \in Threads, Handle(t), admin' # admin
      PROVE  CreateAdmin(t) /\ admin = None /\ admin' = job[t].gen
    <2>1. CreateAdmin(t) BY <1>1, HandleWrites
    <2> QED BY <1>1, <2>1 DEF CreateAdmin
<1> QED BY <1>1, StepKinds, BootstrapShape DEF Quiet, store

LEMMA AdminStays == ASSUME TypeOK, [Next]_vars, admin # None PROVE admin' # None
BY AdminSteps

LEMMA CodeSteps ==
    ASSUME TypeOK, [Next]_vars
    PROVE  \/ codes' = codes
           \/ /\ admin = None /\ admin' # None
              /\ codes' = [c \in Codes |-> "unused"]
           \/ \E t \in Threads : UseCode(t)
<1>1. ASSUME NEW t \in Threads, Handle(t), codes' # codes, ~ UseCode(t)
      PROVE  /\ admin = None /\ admin' # None
             /\ codes' = [c \in Codes |-> "unused"]
    <2>1. CreateAdmin(t) BY <1>1, HandleWrites
    <2>2. job[t].gen \in Gens
        BY <2>1 DEF CreateAdmin, TypeOK, Holds, SetupLabels, Processes
    <2>3. job[t].gen # None BY <2>2, SetsAssumption
    <2> QED BY <1>1, <2>1, <2>3 DEF CreateAdmin
<1> QED BY <1>1, StepKinds, BootstrapShape DEF Quiet, store

LEMMA SetupStep ==
    ASSUME TypeOK, SetupInv, [Next]_vars
    PROVE  SetupInv'
<1>0. shown \subseteq shown'
    BY StepKinds, BootstrapShape, HandleWrites DEF Quiet
<1>1. ASSUME NEW u \in Threads, pc'[u] \in SetupLabels
      PROVE  job'[u].gen \in shown'
    <2>0. u \in Processes BY DEF Processes
    <2>1. CASE \E t \in Threads : Handle(t) BY <1>0, <1>1, <2>1, SetupEntry
    <2>2. ASSUME NEW p \in Commands, Bootstrap(p) PROVE job'[u].gen \in shown'
        <3>1. u # p BY SetsAssumption
        <3>2. pc'[u] = pc[u] /\ job'[u] = job[u]
            BY <2>0, <2>2, <3>1, BootstrapShape DEF OthersStay
        <3> QED BY <1>0, <1>1, <3>2 DEF SetupInv
    <2>3. CASE Quiet
        BY <1>0, <1>1, <2>0, <2>3 DEF Quiet, SetupInv, SetupLabels
    <2> QED BY <2>1, <2>2, <2>3, StepKinds
<1>2. SecretWasShown'
    <2>1. ASSUME NEW t \in Threads, CreateAdmin(t) PROVE job[t].gen \in shown
        BY <2>1 DEF CreateAdmin, SetupInv, SetupLabels
    <2> QED BY <1>0, <2>1, AdminSteps DEF SetupInv, SecretWasShown
<1>3. ASSUME NEW c \in Codes, codes'[c] # "absent" PROVE admin' # None
    <2>1. ASSUME NEW t \in Threads, UseCode(t) PROVE codes[c] # "absent"
        BY <1>3, <2>1 DEF UseCode, TypeOK
    <2> QED BY <1>3, <2>1, CodeSteps, AdminStays DEF SetupInv
<1>4. ASSUME NEW u \in Threads, pc'[u] = "unlink" PROVE admin' # None
    <2>0. u \in Processes BY DEF Processes
    <2>1. CASE pc[u] = "unlink" BY <2>1, AdminStays DEF SetupInv
    <2>2. ASSUME pc[u] # "unlink", NEW t \in Threads, Handle(t)
          PROVE  admin' # None
        <3>1. u = t BY <1>4, <2>0, <2>2, HandleShape DEF OthersStay
        <3> QED BY <1>4, <2>2, <3>1, HandleShape
                DEF SetupMove, LoginMove, SessionMove, LoginLabels
    <2>3. ASSUME pc[u] # "unlink", NEW p \in Commands, Bootstrap(p)
          PROVE  FALSE
        BY <1>4, <2>0, <2>3, SetsAssumption, BootstrapShape DEF OthersStay
    <2>4. ASSUME pc[u] # "unlink", Quiet PROVE FALSE
        BY <1>4, <2>0, <2>4 DEF Quiet
    <2> QED BY <2>1, <2>2, <2>3, <2>4, StepKinds
<1> QED BY <1>1, <1>2, <1>3, <1>4 DEF SetupInv

LEMMA SetupInit == ASSUME Init PROVE SetupInv
BY DEF Init, SetupInv, SecretWasShown, SetupLabels, Processes

\* Nobody is locked out: the administrator's secret is one a command has printed,
\* whatever commands and setups ran at once (create_admin, ensure_bootstrap).
THEOREM AdminHoldsSecret == Spec => []SecretWasShown
<1>1. Init => TypeOK /\ SetupInv BY InitTyped, SetupInit
<1>2. TypeOK /\ SetupInv /\ [Next]_vars => (TypeOK /\ SetupInv)'
    BY NextTyped, SetupStep
<1>3. TypeOK /\ SetupInv => SecretWasShown BY DEF SetupInv
<1> QED BY <1>1, <1>2, <1>3, PTL DEF Spec

\* The first setup is the last, and a used code stays used (create_admin,
\* authenticate).
THEOREM SetupHappensOnce == Spec => SetupOnce
<1>1. Init => TypeOK /\ SetupInv BY InitTyped, SetupInit
<1>2. TypeOK /\ SetupInv /\ [Next]_vars => (TypeOK /\ SetupInv)'
    BY NextTyped, SetupStep
<1> DEFINE Once == /\ admin # None => admin' = admin
                   /\ \A c \in Codes : codes[c] = "used" => codes'[c] = "used"
<1>3. ASSUME TypeOK, SetupInv, [Next]_vars PROVE Once
    <2>1. admin # None => admin' = admin BY <1>3, AdminSteps
    <2>2. ASSUME NEW c \in Codes, codes[c] = "used" PROVE codes'[c] = "used"
        <3>1. admin # None BY <1>3, <2>2 DEF SetupInv
        <3>2. ASSUME NEW t \in Threads, UseCode(t) PROVE codes'[c] = "used"
            BY <1>3, <2>2, <3>2 DEF UseCode, TypeOK
        <3> QED BY <1>3, <2>2, <3>1, <3>2, CodeSteps
    <2> QED BY <2>1, <2>2
<1>4. TypeOK /\ SetupInv /\ [Next]_vars => [Once]_vars BY <1>3
<1> QED BY <1>1, <1>2, <1>4, PTL DEF Spec, SetupOnce

----------------------------------------------------------------------------
(* Recovery codes.                                                         *)

CodeInv ==
    /\ \A k \in Cookies :
           opened[k].by \in Codes => codes[opened[k].by] = "used"
    /\ \A t \in Threads :
           pc[t] = "open" /\ job[t].factor \in Codes
           => /\ codes[job[t].factor] = "used"
              /\ \A k \in Cookies : opened[k].by # job[t].factor
    /\ \A t, u \in Threads :
           /\ pc[t] = "open" /\ pc[u] = "open"
           /\ job[t].factor \in Codes /\ job[u].factor = job[t].factor
           => t = u
    /\ OneSessionPerCode

\* A login comes to open its session with a code only by using it up.
LEMMA OpenEntry ==
    ASSUME TypeOK, [Next]_vars, NEW u \in Threads, pc'[u] = "open",
           job'[u].factor \in Codes
    PROVE  \/ pc[u] = "open" /\ job'[u].factor = job[u].factor
           \/ UseCode(u) /\ pc[u] = "use" /\ job'[u].factor = job[u].factor
<1>0. u \in Processes BY DEF Processes
<1>1. ASSUME NEW t \in Threads, Handle(t)
      PROVE  \/ pc[u] = "open" /\ job'[u].factor = job[u].factor
             \/ UseCode(u) /\ pc[u] = "use" /\ job'[u].factor = job[u].factor
    <2>1. CASE u # t BY <1>0, <1>1, <2>1, HandleShape DEF OthersStay
    <2>2. CASE u = t
        <3>1. ~ SetupMove(t) /\ ~ SessionMove(t)
            BY <2>2 DEF SetupMove, SessionMove
        <3>2. LoginMove(t) => UseCode(t) /\ pc[t] = "use" /\ job'[t] = job[t]
            BY <2>2, SetsAssumption DEF LoginMove, LoginLabels
        <3> QED BY <1>1, <2>2, <3>1, <3>2, HandleShape
    <2> QED BY <2>1, <2>2
<1>2. ASSUME NEW p \in Commands, Bootstrap(p)
      PROVE  pc[u] = "open" /\ job'[u].factor = job[u].factor
    BY <1>0, <1>2, SetsAssumption, BootstrapShape DEF OthersStay
<1>3. CASE Quiet BY <1>0, <1>3 DEF Quiet
<1> QED BY <1>1, <1>2, <1>3, StepKinds

\* A session is opened by what its login presented.
LEMMA OpenedSteps ==
    ASSUME TypeOK, [Next]_vars
    PROVE  \/ \A k \in Cookies : opened'[k].by = opened[k].by
           \/ \E t \in Threads, c \in Cookies :
                 /\ pc[t] = "open" /\ pc'[t] = "idle" /\ codes' = codes
                 /\ opened[c].by = None /\ opened'[c].by = job[t].factor
                 /\ \A k \in Cookies \ {c} : opened'[k].by = opened[k].by
                 /\ \A u \in Threads \ {t} : pc'[u] = pc[u] /\ job'[u] = job[u]
<1>1. ASSUME NEW t \in Threads, OpenSession(t)
      PROVE  \E c \in Cookies :
                 /\ pc[t] = "open" /\ pc'[t] = "idle" /\ codes' = codes
                 /\ opened[c].by = None /\ opened'[c].by = job[t].factor
                 /\ \A k \in Cookies \ {c} : opened'[k].by = opened[k].by
                 /\ \A u \in Threads \ {t} : pc'[u] = pc[u] /\ job'[u] = job[u]
    <2>1. PICK c \in Cookies :
              /\ opened[c].by = None
              /\ opened' = [opened EXCEPT ![c] = [by |-> job[t].factor, at |-> now]]
        BY <1>1 DEF OpenSession
    <2>2. /\ opened'[c].by = job[t].factor
          /\ \A k \in Cookies \ {c} : opened'[k] = opened[k]
        BY <2>1 DEF TypeOK
    <2>3. OthersStay(t) /\ pc'[t] = "idle"
        BY <1>1, ReturnShape DEF OpenSession, Processes
    <2> QED BY <1>1, <2>1, <2>2, <2>3 DEF OpenSession, OthersStay, Processes
<1>2. ASSUME NEW c \in Cookies, Delete(c)
      PROVE  \A k \in Cookies : opened'[k].by = opened[k].by
    BY <1>2 DEF Delete, TypeOK
<1>3. ASSUME NEW t \in Threads, DropSession(t) \/ Logout(t)
      PROVE  \A k \in Cookies : opened'[k].by = opened[k].by
    <2>1. job[t].cookie \in Cookies /\ Delete(job[t].cookie)
        BY <1>3 DEF DropSession, Logout, TypeOK, Holds, SessionLabels, Processes
    <2> QED BY <1>2, <2>1
<1>4. ASSUME opened' = opened
      PROVE  \A k \in Cookies : opened'[k].by = opened[k].by
    BY <1>4
<1>5. ASSUME NEW t \in Threads, Handle(t)
      PROVE  opened' = opened \/ OpenSession(t) \/ DropSession(t) \/ Logout(t)
    BY <1>5, HandleWrites
<1>6. (\E p \in Commands : Bootstrap(p)) \/ Quiet => opened' = opened
    BY BootstrapShape DEF Quiet
<1> QED BY <1>1, <1>3, <1>4, <1>5, <1>6, StepKinds

\* While there is no administrator no code has been used.
LEMMA NothingUsed ==
    ASSUME SetupInv, CodeInv, admin = None
    PROVE  /\ \A k \in Cookies : opened[k].by \notin Codes
           /\ \A t \in Threads : pc[t] = "open" => job[t].factor \notin Codes
BY DEF SetupInv, CodeInv

LEMMA CodeStep ==
    ASSUME TypeOK, SetupInv, CodeInv, [Next]_vars
    PROVE  CodeInv'
<1>1. ASSUME NEW c \in Codes, codes[c] = "used" PROVE codes'[c] = "used"
    <2>1. admin # None BY <1>1 DEF SetupInv
    <2>2. ASSUME NEW t \in Threads, UseCode(t) PROVE codes'[c] = "used"
        BY <1>1, <2>2 DEF UseCode, TypeOK
    <2> QED BY <1>1, <2>1, <2>2, CodeSteps
<1>2. ASSUME NEW u \in Threads, UseCode(u), pc'[u] = "open", pc[u] = "use"
      PROVE  /\ job[u].factor \in Codes /\ codes[job[u].factor] = "unused"
             /\ codes'[job[u].factor] = "used"
             /\ \A v \in Threads \ {u} : pc'[v] = pc[v] /\ job'[v] = job[v]
             /\ opened' = opened
    <2>0. u \in Processes /\ job[u].factor \in Codes
        BY <1>2 DEF TypeOK, Holds, Processes
    <2>1. codes[job[u].factor] = "unused"
        BY <1>2, <2>0, GoShape DEF UseCode
    <2>2. OthersStay(u) BY <1>2, <2>0, GoShape DEF UseCode
    <2> QED BY <1>2, <2>0, <2>1, <2>2
            DEF UseCode, OthersStay, Processes, history, TypeOK
<1>3. ASSUME NEW u \in Threads, pc'[u] = "open", job'[u].factor \in Codes
      PROVE  /\ codes'[job'[u].factor] = "used"
             /\ \A k \in Cookies : opened'[k].by # job'[u].factor
    <2>1. CASE pc[u] = "open" /\ job'[u].factor = job[u].factor
        <3>1. /\ codes[job[u].factor] = "used"
              /\ \A k \in Cookies : opened[k].by # job[u].factor
            BY <1>3, <2>1 DEF CodeInv
        <3>2. ASSUME NEW t \in Threads, pc[t] = "open", pc'[t] = "idle"
              PROVE  job[t].factor # job[u].factor
            BY <1>3, <2>1, <3>2 DEF CodeInv
        <3> QED BY <1>1, <1>3, <2>1, <3>1, <3>2, OpenedSteps
    <2>2. CASE UseCode(u) /\ pc[u] = "use" /\ job'[u].factor = job[u].factor
        BY <1>2, <1>3, <2>2 DEF CodeInv
    <2> QED BY <1>3, <2>1, <2>2, OpenEntry
<1>4. ASSUME NEW t \in Threads, NEW u \in Threads, pc'[t] = "open",
             pc'[u] = "open", job'[t].factor \in Codes,
             job'[u].factor = job'[t].factor, t # u
      PROVE  FALSE
    <2>1. ASSUME NEW v \in Threads, NEW w \in Threads, v # w, pc'[v] = "open",
                 pc'[w] = "open", job'[w].factor \in Codes,
                 job'[v].factor = job'[w].factor, UseCode(v), pc[v] = "use",
                 job'[v].factor = job[v].factor
          PROVE  FALSE
        <3>1. pc[w] = "open" /\ job[w].factor = job[v].factor
            BY <1>2, <2>1
        <3> QED BY <1>2, <2>1, <3>1 DEF CodeInv
    <2>2. pc[t] = "open" /\ job'[t].factor = job[t].factor
        BY <1>4, <2>1, OpenEntry
    <2>3. pc[u] = "open" /\ job'[u].factor = job[u].factor
        BY <1>4, <2>1, OpenEntry
    <2> QED BY <1>4, <2>2, <2>3 DEF CodeInv
<1>5. ASSUME NEW k \in Cookies, opened'[k].by \in Codes
      PROVE  codes'[opened'[k].by] = "used"
    BY <1>1, <1>5, OpenedSteps DEF CodeInv
<1>6. ASSUME NEW c \in Cookies, NEW d \in Cookies, opened'[c].by \in Codes,
             opened'[d].by = opened'[c].by
      PROVE  c = d
    <2>1. CASE \A k \in Cookies : opened'[k].by = opened[k].by
        BY <1>6, <2>1 DEF CodeInv, OneSessionPerCode
    <2>2. ASSUME NEW t \in Threads, NEW e \in Cookies, pc[t] = "open",
                 opened'[e].by = job[t].factor,
                 \A k \in Cookies \ {e} : opened'[k].by = opened[k].by
          PROVE  c = d
        BY <1>6, <2>2 DEF CodeInv, OneSessionPerCode
    <2> QED BY <2>1, <2>2, OpenedSteps
<1> QED BY <1>3, <1>4, <1>5, <1>6 DEF CodeInv, OneSessionPerCode

LEMMA CodeInit == ASSUME Init PROVE CodeInv
BY SetsAssumption DEF Init, CodeInv, OneSessionPerCode, Processes

\* A recovery code opens at most one session, however the logins that present it
\* interleave (authenticate: UPDATE ... WHERE used_at IS NULL and its row count).
THEOREM CodesOpenOneSession == Spec => []OneSessionPerCode
<1>1. Init => TypeOK /\ SetupInv /\ CodeInv BY InitTyped, SetupInit, CodeInit
<1>2. TypeOK /\ SetupInv /\ CodeInv /\ [Next]_vars
          => (TypeOK /\ SetupInv /\ CodeInv)'
    BY NextTyped, SetupStep, CodeStep
<1>3. TypeOK /\ SetupInv /\ CodeInv => OneSessionPerCode BY DEF CodeInv
<1> QED BY <1>1, <1>2, <1>3, PTL DEF Spec

----------------------------------------------------------------------------
(* The limit on failed logins.                                             *)

LEMMA SetsFinite ==
    /\ IsFiniteSet(Failures) /\ IsFiniteSet(LoggingIn)
    /\ Cardinality(Failures) \in Nat /\ Cardinality(LoggingIn) \in Nat
    /\ Cardinality(LoggingIn) =< Cardinality(Threads)
    /\ Cardinality(Threads) \in Nat
<1>1. Failures \in SUBSET Rows BY DEF Failures
<1>2. LoggingIn \in SUBSET Threads BY DEF LoggingIn
<1> QED BY <1>1, <1>2, SetsAssumption, FS_Subset, FS_CardinalityType

\* Old failures go; a failure counts no longer when the clock goes on.
LEMMA FailuresShrink ==
    ASSUME TypeOK, attempts' = attempts \/ attempts' = Purged, now' \in {now, now + 1}
    PROVE  Failures' \subseteq Failures
<1> SUFFICES ASSUME NEW r \in Rows, Recent(r)' PROVE Recent(r)
    BY DEF Failures
<1>1. attempts[r] \in Nat /\ now \in Nat BY DEF TypeOK
<1>2. attempts'[r] # 0 /\ attempts'[r] + Window >= now' BY DEF Recent
<1>3. attempts'[r] = attempts[r]
    <2>1. CASE attempts' = attempts BY <2>1
    <2>2. CASE attempts' = Purged BY <1>2, <2>2 DEF Purged
    <2> QED BY <2>1, <2>2
<1> QED BY <1>1, <1>2, <1>3, TimesAssumption DEF Recent

\* A login begins by the check of the limit only.
LEMMA LoginEntry ==
    ASSUME TypeOK, [Next]_vars,
           ~ \E t \in Threads : Handle(t) /\ Checks(t) /\ pc'[t] = "admin"
    PROVE  LoggingIn' \subseteq LoggingIn
<1> SUFFICES ASSUME NEW u \in Threads, pc'[u] \in LoginLabels
             PROVE  pc[u] \in LoginLabels
    BY DEF LoggingIn
<1>0. u \in Processes BY DEF Processes
<1>1. ASSUME NEW t \in Threads, Handle(t) PROVE pc[u] \in LoginLabels
    <2>1. CASE u # t BY <1>0, <1>1, <2>1, HandleShape DEF OthersStay
    <2>2. CASE u = t
        <3>1. ~ SetupMove(t) /\ ~ SessionMove(t) /\ pc'[t] # "idle"
            BY <2>2 DEF SetupMove, SessionMove, LoginLabels
        <3>2. LoginMove(t) => pc[t] \in LoginLabels
            BY <1>1, <2>2 DEF LoginMove, LoginLabels
        <3> QED BY <1>1, <2>2, <3>1, <3>2, HandleShape
    <2> QED BY <2>1, <2>2
<1>2. ASSUME NEW p \in Commands, Bootstrap(p) PROVE pc[u] \in LoginLabels
    BY <1>0, <1>2, SetsAssumption, BootstrapShape DEF OthersStay
<1>3. CASE Quiet BY <1>0, <1>3 DEF Quiet, LoginLabels
<1> QED BY <1>1, <1>2, <1>3, StepKinds

LEMMA LimitStep ==
    ASSUME TypeOK, FailuresBounded, [Next]_vars
    PROVE  FailuresBounded'
<1>0. /\ IsFiniteSet(Failures) /\ IsFiniteSet(LoggingIn)
      /\ Cardinality(Failures) \in Nat /\ Cardinality(LoggingIn) \in Nat
      /\ Cardinality(Threads) \in Nat /\ Limit \in Nat \ {0}
    BY SetsFinite, TimesAssumption
<1>00. Cardinality(LoggingIn') =< Cardinality(Threads)
       /\ Cardinality(LoggingIn') \in Nat
    <2>1. LoggingIn' \in SUBSET Threads BY DEF LoggingIn
    <2> QED BY <2>1, SetsAssumption, FS_Subset, FS_CardinalityType
<1>1. ASSUME NEW t \in Threads, Handle(t), Checks(t), pc'[t] = "admin"
      PROVE  FailuresBounded'
    <2>1. PICK factor \in Factors : CheckRateLimit(t, factor) BY <1>1 DEF Checks
    <2>2. ~ (Cardinality(Failures) >= Limit)
        BY <1>1, <2>1 DEF CheckRateLimit, process
    <2>3. Failures' \subseteq Failures
        BY <2>1, FailuresShrink DEF CheckRateLimit
    <2>4. /\ Cardinality(Failures') =< Cardinality(Failures)
          /\ Cardinality(Failures') \in Nat
        BY <1>0, <2>3, FS_Subset, FS_CardinalityType
    <2> QED BY <1>0, <1>00, <2>2, <2>4 DEF FailuresBounded
<1>2. ASSUME NEW t \in Threads, RecordFailure(t)
      PROVE  FailuresBounded'
    <2>0. t \in Processes BY DEF Processes
    <2>1. PICK r \in Rows : attempts' = [attempts EXCEPT ![r] = now]
        BY <1>2 DEF RecordFailure
    <2>2. Failures' \subseteq Failures \cup {r}
        BY <1>2, <2>1 DEF RecordFailure, Failures, Recent, TypeOK
    <2>3. OthersStay(t) /\ pc'[t] = "idle" /\ pc[t] = "record"
        BY <1>2, <2>0, ReturnShape DEF RecordFailure
    <2>4. LoggingIn' = LoggingIn \ {t} /\ t \in LoggingIn
        BY <2>3 DEF LoggingIn, LoginLabels, OthersStay, Processes
    <2>5. /\ Cardinality(Failures \cup {r}) =< Cardinality(Failures) + 1
          /\ IsFiniteSet(Failures \cup {r})
        <3>1. /\ IsFiniteSet(Failures \cup {r})
              /\ Cardinality(Failures \cup {r})
                     = IF r \in Failures THEN Cardinality(Failures)
                       ELSE Cardinality(Failures) + 1
            BY <1>0, FS_AddElement, Zenon
        <3> QED BY <1>0, <3>1
    <2>6. /\ Cardinality(Failures') =< Cardinality(Failures \cup {r})
          /\ Cardinality(Failures') \in Nat /\ Cardinality(Failures \cup {r}) \in Nat
        BY <2>2, <2>5, FS_Subset, FS_CardinalityType
    <2>7. Cardinality(LoggingIn') = Cardinality(LoggingIn) - 1
        BY <1>0, <2>4, FS_RemoveElement
    <2> QED BY <1>0, <2>5, <2>6, <2>7 DEF FailuresBounded
<1>3. ASSUME ~ \E t \in Threads : Handle(t) /\ Checks(t) /\ pc'[t] = "admin",
             ~ \E t \in Threads : RecordFailure(t)
      PROVE  FailuresBounded'
    <2>1. LoggingIn' \subseteq LoggingIn BY <1>3, LoginEntry
    <2>2. /\ attempts' = attempts \/ attempts' = Purged
          /\ now' \in {now, now + 1}
        <3>1. ASSUME NEW t \in Threads, Handle(t)
              PROVE  /\ attempts' = attempts \/ attempts' = Purged
                     /\ now' = now
            BY <1>3, <3>1, HandleWrites DEF Checks, CheckRateLimit
        <3> QED BY <3>1, StepKinds, BootstrapShape DEF Quiet, store
    <2>3. Failures' \subseteq Failures BY <2>2, FailuresShrink
    <2>4. /\ Cardinality(Failures') =< Cardinality(Failures)
          /\ Cardinality(Failures') \in Nat
          /\ Cardinality(LoggingIn') =< Cardinality(LoggingIn)
        BY <1>0, <2>1, <2>3, FS_Subset, FS_CardinalityType
    <2> QED BY <1>0, <1>00, <2>4 DEF FailuresBounded
<1> QED BY <1>1, <1>2, <1>3

LEMMA LimitInit == ASSUME Init PROVE FailuresBounded
<1>1. Failures = {} BY DEF Init, Failures, Recent
<1>2. LoggingIn = {} BY DEF Init, LoggingIn, LoginLabels, Processes
<1>3. Cardinality(Failures) = 0 /\ Cardinality(LoggingIn) = 0
    BY <1>1, <1>2, FS_EmptySet
<1> QED BY <1>3, SetsFinite, TimesAssumption DEF FailuresBounded

\* In no window are more failed logins recorded than the limit less one, and one
\* for each thread that was past the check (_check_rate_limit, authenticate).
THEOREM FailuresAreBounded == Spec => []FailuresBounded
<1>1. Init => TypeOK /\ FailuresBounded BY InitTyped, LimitInit
<1>2. TypeOK /\ FailuresBounded /\ [Next]_vars => (TypeOK /\ FailuresBounded)'
    BY NextTyped, LimitStep
<1> QED BY <1>1, <1>2, PTL DEF Spec

----------------------------------------------------------------------------
(* Web sessions.                                                           *)

SessionInv ==
    /\ \A k \in Cookies : used[k] =< now
    /\ \A k \in Cookies :
           sessions[k] # NoRow
           => /\ opened[k].by # None /\ sessions[k].at =< used[k]
              /\ sessions[k].until = opened[k].at + Absolute
    /\ \A t \in Threads :
           pc[t] = "touch"
           => LET k == job[t].cookie IN
              /\ opened[k].by # None
              /\ sessions[k] # NoRow => job[t].at =< used[k]

LEMMA DeleteWrites ==
    ASSUME TypeOK, NEW c \in Cookies, Delete(c)
    PROVE  /\ sessions'[c] = NoRow /\ used'[c] = 0 /\ opened'[c].by = opened[c].by
           /\ \A k \in Cookies \ {c} : /\ sessions'[k] = sessions[k]
                                       /\ used'[k] = used[k]
                                       /\ opened'[k] = opened[k]
BY DEF Delete, TypeOK

\* Only a request that is let through comes to touch its session.
LEMMA TouchEntry ==
    ASSUME TypeOK, [Next]_vars, NEW u \in Threads, pc'[u] = "touch"
    PROVE  \/ pc[u] = "touch" /\ job'[u] = job[u]
           \/ /\ Asks(u) /\ Handle(u) /\ job'[u].cookie \in Cookies
              /\ job'[u].at = now /\ used'[job'[u].cookie] = now
              /\ sessions[job'[u].cookie] # NoRow /\ opened' = opened
<1>0. u \in Processes BY DEF Processes
<1>1. ASSUME NEW t \in Threads, Handle(t), pc[u] # "touch" \/ job'[u] # job[u]
      PROVE  /\ Asks(u) /\ Handle(u) /\ job'[u].cookie \in Cookies
             /\ job'[u].at = now /\ used'[job'[u].cookie] = now
             /\ sessions[job'[u].cookie] # NoRow /\ opened' = opened
    <2>1. u = t BY <1>0, <1>1, HandleShape DEF OthersStay
    <2>2. ~ SetupMove(t) /\ ~ LoginMove(t)
        BY <2>1 DEF SetupMove, LoginMove, LoginLabels
    <2>3. SessionMove(t) BY <1>1, <2>1, <2>2, HandleShape
    <2> QED BY <1>1, <2>1, <2>3 DEF SessionMove
<1>2. ASSUME NEW p \in Commands, Bootstrap(p)
      PROVE  pc[u] = "touch" /\ job'[u] = job[u]
    BY <1>0, <1>2, SetsAssumption, BootstrapShape DEF OthersStay
<1>3. CASE Quiet BY <1>0, <1>3 DEF Quiet
<1> QED BY <1>1, <1>2, <1>3, StepKinds

\* What one step does to one session.
SessionChange(k) ==
    \/ /\ sessions'[k] = sessions[k] /\ opened'[k] = opened[k]
       /\ used'[k] = used[k] \/ used'[k] = now
    \/ /\ opened[k].by = None /\ opened'[k].by # None /\ opened'[k].at = now
       /\ sessions'[k] = [at |-> now, until |-> now + Absolute] /\ used'[k] = now
    \/ /\ sessions'[k] = NoRow /\ used'[k] = 0 /\ opened'[k].by = opened[k].by
    \/ \E t \in Threads :
          /\ pc[t] = "touch" /\ job[t].cookie = k
          /\ opened'[k] = opened[k] /\ used'[k] = used[k]
          /\ sessions[k] # NoRow
          /\ sessions'[k] = [sessions[k] EXCEPT !.at = job[t].at]

LEMMA SessionSteps ==
    ASSUME TypeOK, [Next]_vars, NEW k \in Cookies
    PROVE  SessionChange(k)
<1>1. ASSUME NEW t \in Threads, OpenSession(t) PROVE SessionChange(k)
    <2>1. PICK c \in Cookies :
              /\ opened[c].by = None
              /\ sessions' = [sessions EXCEPT ![c] =
                                  [at |-> now, until |-> now + Absolute]]
              /\ opened' = [opened EXCEPT ![c] = [by |-> job[t].factor, at |-> now]]
              /\ used' = [used EXCEPT ![c] = now]
        BY <1>1 DEF OpenSession
    <2>2. job[t].factor # None
        BY <1>1, SetsAssumption
        DEF OpenSession, TypeOK, Holds, Job, Factors, Processes
    <2>3. CASE k = c BY <2>1, <2>2, <2>3 DEF SessionChange, TypeOK
    <2>4. CASE k # c BY <2>1, <2>4 DEF SessionChange, TypeOK
    <2> QED BY <2>3, <2>4
<1>2. ASSUME NEW t \in Threads, DropSession(t) \/ Logout(t)
      PROVE  SessionChange(k)
    <2>1. job[t].cookie \in Cookies /\ Delete(job[t].cookie)
        BY <1>2 DEF DropSession, Logout, TypeOK, Holds, SessionLabels, Processes
    <2> QED BY <2>1, DeleteWrites DEF SessionChange
<1>3. ASSUME NEW t \in Threads, Touch(t) PROVE SessionChange(k)
    <2>1. job[t].cookie \in Cookies
        BY <1>3 DEF Touch, TypeOK, Holds, SessionLabels, Processes
    <2>2. opened' = opened /\ used' = used BY <1>3 DEF Touch, history
    <2>3. sessions' = Seen(job[t].cookie, job[t].at) /\ pc[t] = "touch"
        BY <1>3 DEF Touch
    <2>4. CASE sessions[job[t].cookie] = NoRow
        BY <2>2, <2>3, <2>4 DEF Seen, SessionChange
    <2>5. CASE sessions[job[t].cookie] # NoRow
        <3>1. sessions' = [sessions EXCEPT ![job[t].cookie].at = job[t].at]
            BY <2>3, <2>5 DEF Seen
        <3>2. CASE k = job[t].cookie
            <4>1. sessions'[k] = [sessions[k] EXCEPT !.at = job[t].at]
                BY <3>1, <3>2 DEF TypeOK
            <4> QED BY <2>2, <2>3, <2>5, <3>2, <4>1 DEF SessionChange
        <3>3. CASE k # job[t].cookie
            BY <2>1, <2>2, <3>1, <3>3 DEF SessionChange, TypeOK
        <3> QED BY <3>2, <3>3
    <2> QED BY <2>4, <2>5
<1>4. ASSUME NEW t \in Threads, Asks(t) PROVE SessionChange(k)
    <2>1. PICK c \in Cookies, logout \in BOOLEAN : Request(t, c, logout)
        BY <1>4 DEF Asks
    <2>2. /\ sessions' = sessions /\ opened' = opened
          /\ used' = used \/ used' = [used EXCEPT ![c] = now]
        BY <2>1 DEF Request, store
    <2> QED BY <2>2 DEF SessionChange, TypeOK
<1>5. ASSUME sessions' = sessions, opened' = opened, used' = used
      PROVE  SessionChange(k)
    BY <1>5 DEF SessionChange
<1>6. ASSUME NEW t \in Threads, Handle(t) PROVE SessionChange(k)
    BY <1>1, <1>2, <1>3, <1>4, <1>5, <1>6, HandleWrites
<1> QED BY <1>5, <1>6, StepKinds, BootstrapShape DEF Quiet, store

LEMMA SessionStep ==
    ASSUME TypeOK, SessionInv, [Next]_vars
    PROVE  SessionInv'
<1>0. now \in Nat /\ now' \in {now, now + 1}
    <2>1. now' \in {now, now + 1}
        BY StepKinds, BootstrapShape, HandleWrites DEF Quiet
    <2> QED BY <2>1 DEF TypeOK
<1>1. ASSUME NEW k \in Cookies PROVE used'[k] =< now'
    <2>1. used[k] \in Nat /\ used[k] =< now BY DEF TypeOK, SessionInv
    <2>2. used'[k] \in {used[k], now, 0} BY SessionSteps DEF SessionChange
    <2> QED BY <1>0, <2>1, <2>2
<1>2. ASSUME NEW k \in Cookies, sessions'[k] # NoRow
      PROVE  /\ opened'[k].by # None /\ sessions'[k].at =< used'[k]
             /\ sessions'[k].until = opened'[k].at + Absolute
    <2>0. /\ used[k] \in Nat /\ used[k] =< now
          /\ sessions[k] \in [at : Nat, until : Nat]
        BY DEF TypeOK, SessionInv
    <2>1. CASE /\ sessions'[k] = sessions[k] /\ opened'[k] = opened[k]
               /\ used'[k] = used[k] \/ used'[k] = now
        <3>1. /\ opened[k].by # None /\ sessions[k].at =< used[k]
              /\ sessions[k].until = opened[k].at + Absolute
            BY <1>2, <2>1 DEF SessionInv
        <3> QED BY <1>0, <2>0, <2>1, <3>1
    <2>2. CASE /\ opened'[k].by # None /\ opened'[k].at = now
               /\ sessions'[k] = [at |-> now, until |-> now + Absolute]
               /\ used'[k] = now
        BY <1>0, <2>2
    <2>3. ASSUME NEW t \in Threads, pc[t] = "touch", job[t].cookie = k,
                 opened'[k] = opened[k], used'[k] = used[k], sessions[k] # NoRow,
                 sessions'[k] = [sessions[k] EXCEPT !.at = job[t].at]
          PROVE  /\ opened'[k].by # None /\ sessions'[k].at =< used'[k]
                 /\ sessions'[k].until = opened'[k].at + Absolute
        <3>1. sessions'[k].at = job[t].at /\ sessions'[k].until = sessions[k].until
            BY <2>0, <2>3
        <3>2. /\ opened[k].by # None /\ job[t].at =< used[k]
              /\ sessions[k].until = opened[k].at + Absolute
            BY <2>3 DEF SessionInv
        <3> QED BY <2>3, <3>1, <3>2
    <2> QED BY <1>2, <2>1, <2>2, <2>3, SessionSteps DEF SessionChange
<1>3. ASSUME NEW t \in Threads, pc'[t] = "touch"
      PROVE  /\ opened'[job'[t].cookie].by # None
             /\ sessions'[job'[t].cookie] # NoRow
                => job'[t].at =< used'[job'[t].cookie]
    <2> DEFINE k == job'[t].cookie
    <2>1. CASE pc[t] = "touch" /\ job'[t] = job[t]
        <3>1. k \in Cookies /\ job[t].at \in Nat
            BY <2>1 DEF TypeOK, Holds, SessionLabels, Processes, Job
        <3>2. used[k] \in Nat /\ used[k] =< now BY <3>1 DEF TypeOK, SessionInv
        <3>3. opened[k].by # None BY <2>1 DEF SessionInv
        <3>4. opened'[k].by # None
            BY <3>1, <3>3, SessionSteps DEF SessionChange
        <3>5. ASSUME sessions'[k] # NoRow PROVE job[t].at =< used'[k]
            <4>1. sessions[k] # NoRow /\ used'[k] \in {used[k], now}
                BY <3>1, <3>3, <3>5, SessionSteps DEF SessionChange
            <4>2. job[t].at =< used[k] BY <2>1, <4>1 DEF SessionInv
            <4> QED BY <1>0, <3>1, <3>2, <4>1, <4>2
        <3> QED BY <2>1, <3>4, <3>5
    <2>2. CASE /\ k \in Cookies /\ job'[t].at = now /\ used'[k] = now
               /\ sessions[k] # NoRow /\ opened' = opened
        <3>1. opened[k].by # None BY <2>2 DEF SessionInv
        <3> QED BY <1>0, <2>2, <3>1
    <2> QED BY <1>3, <2>1, <2>2, TouchEntry
<1> QED BY <1>1, <1>2, <1>3 DEF SessionInv

LEMMA SessionInit == ASSUME Init PROVE SessionInv
BY DEF Init, SessionInv, Processes

\* A session that has ended stays so (verify_session, logout): what a slow request
\* writes last is an UPDATE.
THEOREM SessionsStayEnded == Spec => EndedStaysEnded
<1> DEFINE Ended == \A c \in Cookies :
                        opened[c].by # None /\ sessions[c] = NoRow
                        => sessions'[c] = NoRow
<1>1. ASSUME TypeOK, [Next]_vars PROVE Ended
    BY <1>1, SessionSteps DEF SessionChange
<1>2. TypeOK /\ [Next]_vars => [Ended]_vars BY <1>1
<1> QED BY InitTyped, NextTyped, <1>2, PTL DEF Spec, EndedStaysEnded

\* A request is let through within both limits of its session, however late the
\* requests before it write what they saw (verify_session).
THEOREM SessionLimitsHold == Spec => LetThroughInTime
<1> DEFINE InTime ==
        \A t \in Threads, c \in Cookies :
            LetThrough(t, c) => /\ now < opened[c].at + Absolute
                                /\ now =< used[c] + Idle
<1>1. Init => TypeOK /\ SessionInv BY InitTyped, SessionInit
<1>2. TypeOK /\ SessionInv /\ [Next]_vars => (TypeOK /\ SessionInv)'
    BY NextTyped, SessionStep
<1>3. ASSUME TypeOK, SessionInv, [Next]_vars PROVE InTime
    <2> SUFFICES ASSUME NEW t \in Threads, NEW c \in Cookies, LetThrough(t, c)
                 PROVE  now < opened[c].at + Absolute /\ now =< used[c] + Idle
        OBVIOUS
    <2>1. Asks(t) BY <1>3, TouchEntry DEF LetThrough
    <2>2. PICK k \in Cookies, logout \in BOOLEAN : Request(t, k, logout)
        BY <2>1 DEF Asks
    <2> DEFINE j == [NoJob EXCEPT !.cookie = k, !.at = now, !.logout = logout]
    <2>3. /\ GoWith(t, IF Expired(sessions[k]) THEN "drop" ELSE "touch", j)
          /\ sessions[k] # NoRow
        BY <2>2 DEF Request
    <2>4. j.cookie = k BY DEF NoJob
    <2> HIDE DEF j
    <2>5. k = c /\ ~ Expired(sessions[k])
        BY <1>3, <2>3, <2>4, GoWithShape DEF LetThrough, Processes
    <2>6. /\ sessions[c].at =< used[c]
          /\ sessions[c].until = opened[c].at + Absolute
        BY <1>3, <2>3, <2>5 DEF SessionInv
    <2>7. /\ now \in Nat /\ used[c] \in Nat /\ sessions[c].at \in Nat
          /\ sessions[c].until \in Nat /\ Idle \in Nat
        BY <1>3, TimesAssumption DEF TypeOK
    <2> QED BY <2>5, <2>6, <2>7 DEF Expired
<1>4. TypeOK /\ SessionInv /\ [Next]_vars => [InTime]_vars BY <1>3
<1> QED BY <1>1, <1>2, <1>4, PTL DEF Spec, LetThroughInTime

----------------------------------------------------------------------------
(* The bootstrap token.                                                    *)

Alone == \A p, q \in Commands : pc[p] \in Writing /\ pc[q] \in Writing => p = q

Progress(p) ==
    /\ pc[p] \in {"secret", "expires", "truncate", "write"}
       => boot.hash = job[p].gen
    /\ pc[p] \in {"expires", "truncate", "write"} => boot.secret = job[p].gen
    /\ pc[p] = "write" => file = None

Matches ==
    (\A p \in Commands : pc[p] \notin Writing) /\ file # None
    => boot.hash = file /\ boot.secret = file

BootInv ==
    admin = None /\ ~ torn
    => Alone /\ Matches /\ \A p \in Commands : Progress(p)

\* What all steps of a writing command have in common.
LEMMA WriterStep ==
    ASSUME TypeOK, BootInv, admin = None, ~ torn, NEW p \in Commands, OthersStay(p),
           pc[p] \in Writing, pc'[p] \in Writing, job'[p] = job[p], Progress(p)',
           \A q \in Commands \ {p} : pc[q] \notin Writing
    PROVE  BootInv'
<1>0. \A q \in Commands \ {p} : pc'[q] = pc[q] BY DEF OthersStay, Processes
<1>1. Alone' BY <1>0 DEF Alone
<1>2. Matches' BY DEF Matches
<1>3. ASSUME NEW q \in Commands PROVE Progress(q)'
    <2>1. CASE q = p BY <2>1
    <2>2. CASE q # p BY <1>0, <2>2 DEF Progress, Writing
    <2> QED BY <2>1, <2>2
<1> QED BY <1>1, <1>2, <1>3 DEF BootInv

LEMMA BootBootstrap ==
    ASSUME TypeOK, BootInv, NEW p \in Commands, Bootstrap(p)
    PROVE  BootInv'
<1> SUFFICES ASSUME admin' = None, ~ torn' PROVE BootInv'
    BY DEF BootInv
<1>0. p \in Processes /\ admin = None
    BY BootstrapShape DEF Processes
<1>00. \A q \in Commands \ {p} : pc'[q] = pc[q] /\ job'[q] = job[q]
    BY BootstrapShape DEF OthersStay, Processes
<1>1. CASE BootstrapReadExpires(p)
    <2>1. /\ pc[p] = "idle" /\ pc'[p] = "file" /\ boot' = boot /\ file' = file
          /\ torn' = torn
        BY <1>0, <1>1, GoWithShape DEF BootstrapReadExpires, store, history
    <2> QED BY <1>0, <1>00, <2>1
            DEF BootInv, Alone, Matches, Progress, Writing
<1>2. CASE BootstrapReadFile(p)
    <2>0. pc[p] = "file" /\ boot' = boot /\ file' = file
        BY <1>2 DEF BootstrapReadFile, store
    <2>1. CASE Return(p) /\ torn' = torn
        <3>1. pc'[p] = "idle" BY <1>0, <2>1, ReturnShape
        <3> QED BY <1>0, <1>00, <2>0, <2>1, <3>1
                DEF BootInv, Alone, Matches, Progress, Writing
    <2>2. CASE /\ \E g \in Gens :
                     GoWith(p, "hash",
                            [NoJob EXCEPT !.gen = g, !.at = now + Lifetime])
               /\ torn' = (\E q \in Commands : pc[q] \in Writing)
        <3>1. pc'[p] = "hash" BY <1>0, <2>2, GoWithShape
        <3>2. \A q \in Commands : pc[q] \notin Writing BY <2>2
        <3>3. \A q \in Commands \ {p} : pc'[q] \notin Writing BY <1>00, <3>2
        <3>4. Alone' /\ Matches' BY <3>1, <3>3 DEF Alone, Matches, Writing
        <3>5. \A q \in Commands : Progress(q)'
            BY <3>1, <3>3 DEF Progress, Writing
        <3> QED BY <3>4, <3>5 DEF BootInv
    <2> QED BY <1>2, <2>1, <2>2 DEF BootstrapReadFile
<1>3. ASSUME pc[p] \in Writing, torn' = torn
      PROVE  /\ ~ torn /\ Progress(p) /\ OthersStay(p)
             /\ \A q \in Commands \ {p} : pc[q] \notin Writing
    BY <1>0, <1>3, BootstrapShape DEF BootInv, Alone
<1>4. CASE SetHash(p)
    <2>1. /\ pc[p] = "hash" /\ pc'[p] = "secret" /\ job'[p] = job[p]
          /\ boot'.hash = job[p].gen /\ torn' = torn
        BY <1>0, <1>4, GoShape DEF SetHash, history, TypeOK
    <2> QED BY <1>0, <1>3, <2>1, WriterStep DEF Progress, Writing
<1>5. CASE SetSecret(p)
    <2>1. /\ pc[p] = "secret" /\ pc'[p] = "expires" /\ job'[p] = job[p]
          /\ boot'.secret = job[p].gen /\ boot'.hash = boot.hash /\ torn' = torn
        BY <1>0, <1>5, GoShape DEF SetSecret, history, TypeOK
    <2> QED BY <1>0, <1>3, <2>1, WriterStep DEF Progress, Writing
<1>6. CASE SetExpires(p)
    <2>1. /\ pc[p] = "expires" /\ pc'[p] = "truncate" /\ job'[p] = job[p]
          /\ boot'.secret = boot.secret /\ boot'.hash = boot.hash /\ torn' = torn
        BY <1>0, <1>6, GoShape DEF SetExpires, history, TypeOK
    <2> QED BY <1>0, <1>3, <2>1, WriterStep DEF Progress, Writing
<1>7. CASE TruncateFile(p)
    <2>1. /\ pc[p] = "truncate" /\ pc'[p] = "write" /\ job'[p] = job[p]
          /\ boot' = boot /\ file' = None /\ torn' = torn
        BY <1>0, <1>7, GoShape DEF TruncateFile, history
    <2> QED BY <1>0, <1>3, <2>1, WriterStep DEF Progress, Writing
<1>8. CASE WriteFile(p)
    <2>1. /\ pc[p] = "write" /\ pc'[p] = "idle" /\ boot' = boot
          /\ file' = job[p].gen /\ torn' = torn
        BY <1>0, <1>8, ReturnShape DEF WriteFile
    <2>2. /\ boot.hash = job[p].gen /\ boot.secret = job[p].gen
          /\ \A q \in Commands \ {p} : pc[q] \notin Writing
        BY <1>3, <2>1 DEF Progress, Writing
    <2>3. \A q \in Commands : pc'[q] \notin Writing
        BY <1>00, <2>1, <2>2 DEF Writing
    <2> QED BY <2>1, <2>2, <2>3 DEF BootInv, Alone, Matches, Progress, Writing
<1> QED BY <1>1, <1>2, <1>4, <1>5, <1>6, <1>7, <1>8 DEF Bootstrap

LEMMA BootStep ==
    ASSUME TypeOK, SetupInv, BootInv, [Next]_vars
    PROVE  BootInv'
<1>1. ASSUME NEW t \in Threads, Handle(t) PROVE BootInv'
    <2> SUFFICES ASSUME admin' = None, ~ torn' PROVE BootInv'
        BY DEF BootInv
    <2>1. admin = None /\ torn' = torn BY <1>1, AdminStays, HandleWrites
    <2>2. ~ CreateAdmin(t) \/ boot' = boot
        <3>1. job[t].gen \in Gens \/ ~ CreateAdmin(t)
            BY DEF CreateAdmin, TypeOK, Holds, SetupLabels, Processes
        <3>2. CreateAdmin(t) => admin' = job[t].gen BY <2>1 DEF CreateAdmin
        <3> QED BY <3>1, <3>2, SetsAssumption
    <2>3. ~ Unlink(t) BY <2>1 DEF Unlink, SetupInv
    <2>4. boot' = boot /\ file' = file BY <1>1, <2>2, <2>3, HandleWrites
    <2>5. \A p \in Commands : pc'[p] = pc[p] /\ job'[p] = job[p]
        BY <1>1, SetsAssumption, HandleShape DEF OthersStay, Processes
    <2> QED BY <2>1, <2>4, <2>5 DEF BootInv, Alone, Matches, Progress
<1>2. ASSUME NEW P \in SUBSET Processes, Crash(P) PROVE BootInv'
    <2> SUFFICES ASSUME admin' = None, ~ torn' PROVE BootInv'
        BY DEF BootInv
    <2>1. /\ admin = None /\ ~ torn /\ boot' = boot /\ file' = file
          /\ \A p \in P : pc[p] \notin Writing
        BY <1>2 DEF Crash, store
    <2>2. \A p \in Commands :
              \/ pc'[p] = pc[p] /\ job'[p] = job[p]
              \/ pc'[p] = "idle" /\ pc[p] \notin Writing
        BY <1>2, <2>1 DEF Crash, Processes
    <2>3. \A p \in Commands : pc'[p] \in Writing <=> pc[p] \in Writing
        BY <2>2 DEF Writing
    <2>4. Alone' BY <2>1, <2>3 DEF BootInv, Alone
    <2>5. Matches' BY <2>1, <2>3 DEF BootInv, Matches
    <2>6. \A p \in Commands : Progress(p)'
        BY <2>1, <2>2 DEF BootInv, Progress
    <2> QED BY <2>4, <2>5, <2>6 DEF BootInv
<1>3. CASE Tick \/ UNCHANGED vars
    BY <1>3 DEF Tick, vars, store, process, history, BootInv, Alone, Matches,
                Progress
<1> QED BY <1>1, <1>2, <1>3, BootBootstrap DEF Next, Processes

\* The token printed again is the one setup accepts, unless a command crashed or
\* overlapped another while writing it (ensure_bootstrap, create_admin).
THEOREM TokenGoesOnWorking == Spec => []TokenWorks
<1>1. Init => TypeOK /\ SetupInv /\ BootInv
    <2>1. Init => BootInv
        BY DEF Init, BootInv, Alone, Matches, Progress, Writing, Processes
    <2> QED BY <2>1, InitTyped, SetupInit
<1>2. TypeOK /\ SetupInv /\ BootInv /\ [Next]_vars
          => (TypeOK /\ SetupInv /\ BootInv)'
    BY NextTyped, SetupStep, BootStep
<1>3. TypeOK /\ SetupInv /\ BootInv => TokenWorks
    BY DEF BootInv, Matches, TokenWorks
<1> QED BY <1>1, <1>2, <1>3, PTL DEF Spec
=============================================================================
