------------------------------ MODULE Accounts ------------------------------
(***************************************************************************)
(* The administrator's account (wallpilot/storage.py; the handlers in      *)
(* wallpilot/app.py; the command `bootstrap` in wallpilot/cli.py): the     *)
(* bootstrap token, setup, login with its rate limit and recovery codes,   *)
(* web sessions.                                                           *)
(*                                                                         *)
(* A step is one SQLite statement or transaction, or one access to the     *)
(* bootstrap file.  Request threads and bootstrap commands interleave      *)
(* between any two.  A SELECT is outside any transaction, so an UPDATE     *)
(* that follows it is a step of its own.                                   *)
(***************************************************************************)
EXTENDS FiniteSets, Naturals

CONSTANTS
    Threads,    \* of the web process
    Commands,   \* processes running `wallpilot bootstrap`
    Gens,       \* what can be generated: a token with its TOTP secret
    Codes,      \* recovery codes
    Cookies,    \* session tokens
    Rows,       \* of table login_attempts
    Limit,      \* failed logins in a window (5)
    Window,     \* in which they count (15 minutes)
    Lifetime,   \* of a bootstrap token (15 minutes)
    Idle,       \* limit of a session (15 minutes)
    Absolute,   \* limit of a session (8 hours)
    MaxTime,    \* bound: the clock
    MaxCrashes, \* bound: ends of the web process or of a command
    None

Processes == Threads \cup Commands

ASSUME SetsAssumption ==
    /\ IsFiniteSet(Threads) /\ IsFiniteSet(Rows)
    /\ Threads \cap Commands = {}
    /\ None \notin Gens \cup Codes \cup Cookies \cup {"totp", "wrong"}
    /\ Codes \cap {"totp", "wrong"} = {}
ASSUME TimesAssumption ==
    /\ Limit \in Nat \ {0}
    /\ Window \in Nat /\ Lifetime \in Nat /\ Idle \in Nat /\ Absolute \in Nat
    /\ MaxTime \in Nat /\ MaxCrashes \in Nat

VARIABLES
    now,
    admin,     \* table admin: the TOTP secret
    codes,     \* table recovery_codes
    attempts,  \* table login_attempts, of one source: when; 0 is no row
    sessions,  \* table sessions
    boot,      \* the bootstrap settings
    file,      \* bootstrap.txt; None also when it cannot be read
    pc, job,   \* where each process is, and its local variables
    crashes,
    shown,     \* history: generations a command has printed
    torn,      \* history: the last generation was written by a command that
               \* crashed or overlapped another
    opened,    \* history: by what and when each session was opened
    used       \* history: when each session was last let through

store   == <<admin, codes, attempts, sessions, boot, file>>
process == <<pc, job>>
history == <<shown, torn, opened, used>>
vars == <<now, store, process, crashes, history>>

----------------------------------------------------------------------------
NoRow  == [at |-> 0, until |-> 0]
NoBoot == [hash |-> None, secret |-> None, expires |-> 0]

\* What a login presents besides the password.  "wrong" stands for a wrong
\* password too.
Factors == Codes \cup {"totp", "wrong"}

NoJob == [gen |-> None, at |-> 0, factor |-> "wrong", cookie |-> None,
          logout |-> FALSE]

Init ==
    /\ now = 1
    /\ admin = None
    /\ codes = [c \in Codes |-> "absent"]
    /\ attempts = [r \in Rows |-> 0]
    /\ sessions = [c \in Cookies |-> NoRow]
    /\ boot = NoBoot /\ file = None
    /\ pc = [p \in Processes |-> "idle"]
    /\ job = [p \in Processes |-> NoJob]
    /\ crashes = 0
    /\ shown = {} /\ torn = FALSE
    /\ opened = [c \in Cookies |-> [by |-> None, at |-> 0]]
    /\ used = [c \in Cookies |-> 0]

Go(p, label)     == pc' = [pc EXCEPT ![p] = label] /\ UNCHANGED job
GoWith(p, label, j) ==
    pc' = [pc EXCEPT ![p] = label] /\ job' = [job EXCEPT ![p] = j]
Return(p) == GoWith(p, "idle", NoJob)

----------------------------------------------------------------------------
(* The command `bootstrap`: Store.ensure_bootstrap.                        *)

Writing == {"hash", "secret", "expires", "truncate", "write"}

BootstrapReadExpires(p) ==
    /\ pc[p] = "idle" /\ admin = None
    /\ GoWith(p, "file", [NoJob EXCEPT !.at = boot.expires])
    /\ UNCHANGED <<now, store, crashes, history>>

\* The file's token while it has not expired, else a new generation, whose
\* lifetime begins before the first setting is written.
BootstrapReadFile(p) ==
    /\ pc[p] = "file"
    /\ IF file # None /\ job[p].at > now
       THEN /\ shown' = shown \cup {file}
            /\ Return(p)
            /\ UNCHANGED torn
       ELSE /\ \E g \in Gens :
                   /\ \A q \in Processes : job[q].gen # g
                   /\ g \notin {boot.hash, boot.secret, file, admin} \cup shown
                   /\ GoWith(p, "hash",
                             [NoJob EXCEPT !.gen = g, !.at = now + Lifetime])
            /\ torn' = (\E q \in Commands : pc[q] \in Writing)
            /\ UNCHANGED shown
    /\ UNCHANGED <<now, store, crashes, opened, used>>

\* Mutant: a hash that is there is kept.
SetHashOnce(p) ==
    /\ pc[p] = "hash"
    /\ boot' = IF boot.hash = None THEN [boot EXCEPT !.hash = job[p].gen] ELSE boot
    /\ Go(p, "secret")
    /\ UNCHANGED <<now, admin, codes, attempts, sessions, file, crashes, history>>

SetHash(p) ==
    /\ pc[p] = "hash"
    /\ boot' = [boot EXCEPT !.hash = job[p].gen]
    /\ Go(p, "secret")
    /\ UNCHANGED <<now, admin, codes, attempts, sessions, file, crashes, history>>

SetSecret(p) ==
    /\ pc[p] = "secret"
    /\ boot' = [boot EXCEPT !.secret = job[p].gen]
    /\ Go(p, "expires")
    /\ UNCHANGED <<now, admin, codes, attempts, sessions, file, crashes, history>>

SetExpires(p) ==
    /\ pc[p] = "expires"
    /\ boot' = [boot EXCEPT !.expires = job[p].at]
    /\ Go(p, "truncate")
    /\ UNCHANGED <<now, admin, codes, attempts, sessions, file, crashes, history>>

TruncateFile(p) ==
    /\ pc[p] = "truncate"
    /\ file' = None
    /\ Go(p, "write")
    /\ UNCHANGED <<now, admin, codes, attempts, sessions, boot, crashes, history>>

WriteFile(p) ==
    /\ pc[p] = "write"
    /\ file' = job[p].gen /\ shown' = shown \cup {job[p].gen}
    /\ Return(p)
    /\ UNCHANGED <<now, admin, codes, attempts, sessions, boot, crashes,
                   torn, opened, used>>

Bootstrap(p) ==
    \/ BootstrapReadExpires(p) \/ BootstrapReadFile(p)
    \/ SetHash(p) \/ SetSecret(p) \/ SetExpires(p)
    \/ TruncateFile(p) \/ WriteFile(p)

----------------------------------------------------------------------------
(* POST /auth/setup: Store.create_admin, with what a command printed.      *)

Setup(t, g) ==
    /\ pc[t] = "idle" /\ admin = None
    /\ GoWith(t, "read hash", [NoJob EXCEPT !.gen = g])
    /\ UNCHANGED <<now, store, crashes, history>>

ReadHash(t) ==
    /\ pc[t] = "read hash"
    /\ IF boot.hash = job[t].gen THEN Go(t, "read expires") ELSE Return(t)
    /\ UNCHANGED <<now, store, crashes, history>>

ReadExpires(t) ==
    /\ pc[t] = "read expires"
    /\ GoWith(t, "read secret", [job[t] EXCEPT !.at = boot.expires])
    /\ UNCHANGED <<now, store, crashes, history>>

\* Mutant: the TOTP of the secret that was read is not asked for.
ReadAnySecret(t) ==
    /\ pc[t] = "read secret"
    /\ IF job[t].at > now
       THEN GoWith(t, "create", [job[t] EXCEPT !.gen = boot.secret])
       ELSE Return(t)
    /\ UNCHANGED <<now, store, crashes, history>>

ReadSecret(t) ==
    /\ pc[t] = "read secret"
    /\ IF job[t].at > now /\ boot.secret = job[t].gen
       THEN GoWith(t, "create", [job[t] EXCEPT !.gen = boot.secret])
       ELSE Return(t)
    /\ UNCHANGED <<now, store, crashes, history>>

\* Mutant: INSERT OR REPLACE.
ReplaceAdmin(t) ==
    /\ pc[t] = "create"
    /\ admin' = job[t].gen
    /\ boot' = NoBoot /\ codes' = [c \in Codes |-> "unused"]
    /\ Go(t, "unlink")
    /\ UNCHANGED <<now, attempts, sessions, file, crashes, history>>

\* One transaction; the primary key refuses a second administrator.
CreateAdmin(t) ==
    /\ pc[t] = "create"
    /\ IF admin = None
       THEN /\ admin' = job[t].gen
            /\ boot' = NoBoot /\ codes' = [c \in Codes |-> "unused"]
            /\ Go(t, "unlink")
       ELSE /\ Return(t)
            /\ UNCHANGED <<admin, boot, codes>>
    /\ UNCHANGED <<now, attempts, sessions, file, crashes, history>>

Unlink(t) ==
    /\ pc[t] = "unlink"
    /\ file' = None
    /\ Return(t)
    /\ UNCHANGED <<now, admin, codes, attempts, sessions, boot, crashes, history>>

----------------------------------------------------------------------------
(* POST /auth/login: Store.authenticate.                                   *)

Recent(r) == attempts[r] # 0 /\ attempts[r] + Window >= now
Failures == {r \in Rows : Recent(r)}

LoginLabels == {"admin", "code", "use", "record"}
LoggingIn == {t \in Threads : pc[t] \in LoginLabels}

\* A bound: a row is left for every login under way.
AttemptRoom ==
    Cardinality({r \in Rows : attempts[r] = 0}) > Cardinality(LoggingIn)
CookieRoom ==
    Cardinality({c \in Cookies : opened[c].by = None})
        > Cardinality({t \in Threads : pc[t] \in LoginLabels \cup {"open"}})

Purged == [r \in Rows |-> IF Recent(r) THEN attempts[r] ELSE 0]

\* Mutant: one failure too many is let through.
CheckOneMore(t, factor) ==
    /\ pc[t] = "idle" /\ AttemptRoom /\ CookieRoom
    /\ attempts' = Purged
    /\ IF Cardinality(Failures) > Limit
       THEN UNCHANGED process
       ELSE GoWith(t, "admin", [NoJob EXCEPT !.factor = factor])
    /\ UNCHANGED <<now, admin, codes, sessions, boot, file, crashes, history>>

CheckRateLimit(t, factor) ==
    /\ pc[t] = "idle" /\ AttemptRoom /\ CookieRoom
    /\ attempts' = Purged
    /\ IF Cardinality(Failures) >= Limit
       THEN UNCHANGED process
       ELSE GoWith(t, "admin", [NoJob EXCEPT !.factor = factor])
    /\ UNCHANGED <<now, admin, codes, sessions, boot, file, crashes, history>>

ReadAdmin(t) ==
    /\ pc[t] = "admin"
    /\ Go(t, IF admin = None \/ job[t].factor = "wrong" THEN "record"
             ELSE IF job[t].factor = "totp" THEN "open" ELSE "code")
    /\ UNCHANGED <<now, store, crashes, history>>

ReadCode(t) ==
    /\ pc[t] = "code"
    /\ Go(t, IF codes[job[t].factor] = "unused" THEN "use" ELSE "record")
    /\ UNCHANGED <<now, store, crashes, history>>

\* Mutant: the update does not look at used_at again.
UseReadCode(t) ==
    /\ pc[t] = "use"
    /\ codes' = [codes EXCEPT ![job[t].factor] = "used"]
    /\ Go(t, "open")
    /\ UNCHANGED <<now, admin, attempts, sessions, boot, file, crashes, history>>

UseCode(t) ==
    /\ pc[t] = "use"
    /\ IF codes[job[t].factor] = "unused"
       THEN /\ codes' = [codes EXCEPT ![job[t].factor] = "used"]
            /\ Go(t, "open")
       ELSE Go(t, "record") /\ UNCHANGED codes
    /\ UNCHANGED <<now, admin, attempts, sessions, boot, file, crashes, history>>

RecordFailure(t) ==
    /\ pc[t] = "record"
    /\ \E r \in Rows :
           /\ attempts[r] = 0
           /\ attempts' = [attempts EXCEPT ![r] = now]
    /\ Return(t)
    /\ UNCHANGED <<now, admin, codes, sessions, boot, file, crashes, history>>

OpenSession(t) ==
    /\ pc[t] = "open"
    /\ \E c \in Cookies :
           /\ opened[c].by = None
           /\ sessions' = [sessions EXCEPT ![c] =
                               [at |-> now, until |-> now + Absolute]]
           /\ opened' = [opened EXCEPT ![c] =
                             [by |-> job[t].factor, at |-> now]]
           /\ used' = [used EXCEPT ![c] = now]
    /\ Return(t)
    /\ UNCHANGED <<now, admin, codes, attempts, boot, file, crashes, shown, torn>>

----------------------------------------------------------------------------
(* Any other request: Store.verify_session, and Store.logout after it.     *)

\* Mutant: only the idle limit counts.
ExpiredIdle(row) == now > row.at + Idle

Expired(row) == now > row.at + Idle \/ now >= row.until

Request(t, c, logout) ==
    /\ pc[t] = "idle" /\ sessions[c] # NoRow
    /\ GoWith(t, IF Expired(sessions[c]) THEN "drop" ELSE "touch",
              [NoJob EXCEPT !.cookie = c, !.at = now, !.logout = logout])
    /\ used' = IF Expired(sessions[c]) THEN used ELSE [used EXCEPT ![c] = now]
    /\ UNCHANGED <<now, store, crashes, shown, torn, opened>>

Delete(c) ==
    /\ sessions' = [sessions EXCEPT ![c] = NoRow]
    /\ opened' = [opened EXCEPT ![c].at = 0] /\ used' = [used EXCEPT ![c] = 0]

DropSession(t) ==
    /\ pc[t] = "drop"
    /\ Delete(job[t].cookie)
    /\ Return(t)
    /\ UNCHANGED <<now, admin, codes, attempts, boot, file, crashes, shown, torn>>

\* Mutant: what was read is written back, as INSERT OR REPLACE would.
SeenAgain(c, at) ==
    [sessions EXCEPT ![c] = [at |-> at, until |-> opened[c].at + Absolute]]

\* UPDATE: a row that is gone stays gone.
Seen(c, at) ==
    IF sessions[c] = NoRow THEN sessions ELSE [sessions EXCEPT ![c].at = at]

Touch(t) ==
    /\ pc[t] = "touch"
    /\ sessions' = Seen(job[t].cookie, job[t].at)
    /\ IF job[t].logout THEN Go(t, "logout") ELSE Return(t)
    /\ UNCHANGED <<now, admin, codes, attempts, boot, file, crashes, history>>

Logout(t) ==
    /\ pc[t] = "logout"
    /\ Delete(job[t].cookie)
    /\ Return(t)
    /\ UNCHANGED <<now, admin, codes, attempts, boot, file, crashes, shown, torn>>

----------------------------------------------------------------------------
Handle(t) ==
    \/ \E g \in shown : Setup(t, g)
    \/ ReadHash(t) \/ ReadExpires(t) \/ ReadSecret(t)
    \/ CreateAdmin(t) \/ Unlink(t)
    \/ \E factor \in Factors : CheckRateLimit(t, factor)
    \/ ReadAdmin(t) \/ ReadCode(t) \/ UseCode(t)
    \/ RecordFailure(t) \/ OpenSession(t)
    \/ \E c \in Cookies, logout \in BOOLEAN : Request(t, c, logout)
    \/ DropSession(t) \/ Touch(t) \/ Logout(t)

Tick ==
    /\ now < MaxTime
    /\ now' = now + 1
    /\ UNCHANGED <<store, process, crashes, history>>

\* The web process ends, with its threads, or a command does.
Crash(P) ==
    /\ crashes < MaxCrashes
    /\ crashes' = crashes + 1
    /\ pc' = [p \in Processes |-> IF p \in P THEN "idle" ELSE pc[p]]
    /\ job' = [p \in Processes |-> IF p \in P THEN NoJob ELSE job[p]]
    /\ torn' = (torn \/ \E p \in P : pc[p] \in Writing)
    /\ UNCHANGED <<now, store, shown, opened, used>>

Next ==
    \/ \E p \in Commands : Bootstrap(p) \/ Crash({p})
    \/ \E t \in Threads : Handle(t)
    \/ Crash(Threads)
    \/ Tick

Spec == Init /\ [][Next]_vars

----------------------------------------------------------------------------
Job == [gen : Gens \cup {None}, at : Nat, factor : Factors,
        cookie : Cookies \cup {None}, logout : BOOLEAN]

SetupLabels == {"read hash", "read expires", "read secret", "create", "unlink"}
SessionLabels == {"drop", "touch", "logout"}
Labels ==
    {"idle", "file", "open"} \cup Writing \cup SetupLabels \cup LoginLabels
        \cup SessionLabels

\* A process in the middle of a handler holds what the rest of it works on.
Holds(p) ==
    /\ pc[p] \in Writing \cup SetupLabels => job[p].gen \in Gens
    /\ pc[p] \in {"code", "use"} => job[p].factor \in Codes
    /\ pc[p] = "open" => job[p].factor # "wrong"
    /\ pc[p] \in SessionLabels => job[p].cookie \in Cookies

TypeOK ==
    /\ now \in Nat \ {0}
    /\ admin \in Gens \cup {None}
    /\ codes \in [Codes -> {"absent", "unused", "used"}]
    /\ attempts \in [Rows -> Nat]
    /\ sessions \in [Cookies -> [at : Nat, until : Nat]]
    /\ boot \in [hash : Gens \cup {None}, secret : Gens \cup {None},
                 expires : Nat]
    /\ file \in Gens \cup {None}
    /\ pc \in [Processes -> Labels] /\ job \in [Processes -> Job]
    /\ \A p \in Processes : Holds(p)
    /\ crashes \in Nat
    /\ shown \subseteq Gens /\ torn \in BOOLEAN
    /\ opened \in [Cookies -> [by : Codes \cup {"totp", None}, at : Nat]]
    /\ used \in [Cookies -> Nat]

\* A recovery code opens at most one session, however many logins present it at
\* once (authenticate; README.md: the eight codes are for one use each).
OneSessionPerCode ==
    \A c, d \in Cookies :
        opened[c].by \in Codes /\ opened[d].by = opened[c].by => c = d

\* Checking and recording are transactions apart, so the limit on failed logins
\* is exceeded, but by no more than the logins that can be under way at once.
FailuresBounded ==
    Cardinality(Failures) + Cardinality(LoggingIn)
        =< Limit - 1 + Cardinality(Threads)

\* The administrator holds the secret that was stored, whatever a bootstrap
\* command writes while the setup runs (create_admin).
SecretWasShown == admin # None => admin \in shown

\* The token a bootstrap command goes on printing is the one setup accepts, if
\* no command crashed or overlapped another while writing it (ensure_bootstrap).
TokenWorks ==
    admin = None /\ file # None /\ boot.expires > now /\ ~ torn
        /\ (\A p \in Commands : pc[p] \notin Writing)
    => boot.hash = file /\ boot.secret = file

\* The first setup is the last: a second one changes neither the administrator
\* nor a code that was used (create_admin).
SetupOnce ==
    [][/\ admin # None => admin' = admin
       /\ \A c \in Codes : codes[c] = "used" => codes'[c] = "used"]_vars

\* A session that was logged out or has expired does not come back, whichever
\* requests were under way (verify_session, logout).
EndedStaysEnded ==
    [][\A c \in Cookies :
          opened[c].by # None /\ sessions[c] = NoRow => sessions'[c] = NoRow]_vars

\* A request is let through within the session's absolute limit and within the
\* idle limit of an earlier one, whatever is written late (verify_session).
LetThrough(t, c) ==
    pc[t] = "idle" /\ pc'[t] = "touch" /\ job'[t].cookie = c
LetThroughInTime ==
    [][\A t \in Threads, c \in Cookies :
          LetThrough(t, c) => /\ now < opened[c].at + Absolute
                              /\ now =< used[c] + Idle]_vars
=============================================================================
