---------------------------- MODULE Access ----------------------------
(***************************************************************************)
(* Who may do what: user accounts (packages/identity), sessions            *)
(* (packages/auth), tenant memberships and capability grants               *)
(* (packages/authorization), the bearer middleware and the user account    *)
(* and authorization handlers (apps/api/handlers.ts), and the part of      *)
(* bootstrapTenant that admits the first member (apps/api/bootstrap.ts).   *)
(*                                                                         *)
(* None of these services opens a transaction: every database.query is a   *)
(* statement of its own, so a request reads the session, the account, the  *)
(* membership and then writes, and every other caller may run in between.  *)
(* The state is the rows of identity.user_accounts, auth.tenants,          *)
(* auth.sessions, authorization.tenant_memberships and                     *)
(* authorization.memberships, and the calls under way.                     *)
(***************************************************************************)
EXTENDS Naturals, Sequences, FiniteSets

CONSTANTS Users, Tenants, Sessions, Requests,
          Capabilities,           \* what a grant may name
          CapabilityOf,           \* the capability each operation requires
          bootstrapCapabilities,  \* what bootstrapTenant grants, in order
          Ttl,                    \* ttlSeconds of every issued session
          MaxClock,               \* bound on the clock
          None

Operations == {"createAccount", "addMember", "suspendMember",
               "activateMember", "removeMember", "grant"}

ASSUME AccessAssumption ==
  /\ CapabilityOf \in [Operations -> Capabilities]
  /\ bootstrapCapabilities \in Seq(Capabilities)
  /\ Ttl \in Nat \ {0}
  /\ MaxClock \in Nat
  /\ None \notin Users \cup Tenants \cup Sessions

VARIABLES clock,      \* the clock of the processes and the database
          account,    \* user account rows
          disabling,  \* the timestamp a disable call read and has not written yet
          tenant,     \* the tenants that exist
          session,    \* session rows; outlived is history: a disable ended it
          issuing,    \* the account an issueSession call found active
          member,     \* tenant_memberships: status of each user in each tenant
          granted,    \* memberships: capability grants
          request,    \* API requests being served
          bootstrap   \* the bootstrapTenant call under way

accessVars == <<clock, account, disabling, tenant, session, issuing,
                member, granted, request, bootstrap>>

Times == 0 .. MaxClock

NoRequest == [pc |-> "idle"]

NoBootstrap == [pc |-> "idle"]

AccountRow == [status : {"absent", "active", "disabled", "deleted"},
               sessionInvalidatedAt : Times \cup {None}]

SessionRow == [status : {"absent", "live", "revoked", "deleted"},
               user : Users \cup {None}, createdAt : Times,
               expiresAt : 0 .. MaxClock + Ttl, outlived : BOOLEAN]

\* A request before its handler runs, and after: with its route, the x-tenant-id
\* header and its payload, which nothing reads earlier.
RequestRow ==
  [pc : {"session", "account", "authorize"},
   session : Sessions, createdAt : Times, ended : BOOLEAN]
  \cup
  [pc : {"operate", "enroll", "insert"},
   ended : BOOLEAN, tenant : Tenants, operation : Operations, target : Users,
   capability : Capabilities]

BootstrapRow == [pc : {"addMember", "grant", "insert"}, user : Users,
                 tenant : Tenants, next : 1 .. Len(bootstrapCapabilities) + 1]

AccessInit ==
  /\ clock = 0
  /\ account = [u \in Users |-> [status |-> "absent", sessionInvalidatedAt |-> None]]
  /\ disabling = [u \in Users |-> None]
  /\ tenant = {}
  /\ session = [s \in Sessions |->
                 [status |-> "absent", user |-> None, createdAt |-> 0,
                  expiresAt |-> 0, outlived |-> FALSE]]
  /\ issuing = [s \in Sessions |-> None]
  /\ member = [m \in Users \X Tenants |-> "none"]
  /\ granted = {}
  /\ request = [q \in Requests |-> NoRequest]
  /\ bootstrap = NoBootstrap

Exists(u) == account[u].status \in {"active", "disabled"}

Tick ==
  /\ clock < MaxClock
  /\ clock' = clock + 1
  /\ UNCHANGED <<account, disabling, tenant, session, issuing, member, granted,
                 request, bootstrap>>

-----------------------------------------------------------------------------
(* UserAccountService. Account, membership and session rows are deleted    *)
(* together: their foreign keys cascade.                                   *)

Inserted(u) == [account EXCEPT ![u].status = "active"]

\* create, called by trusted code: the first account of an installation.
create(u) ==
  /\ account[u].status = "absent"
  /\ account' = Inserted(u)
  /\ UNCHANGED <<clock, disabling, tenant, session, issuing, member, granted,
                 request, bootstrap>>

\* disable: the timestamp is read before the statement runs.
disable(u) ==
  /\ disabling[u] = None
  /\ disabling' = [disabling EXCEPT ![u] = clock]
  /\ UNCHANGED <<clock, account, tenant, session, issuing, member, granted,
                 request, bootstrap>>

DisableUpdate(u) ==
  /\ disabling[u] # None
  /\ disabling' = [disabling EXCEPT ![u] = None]
  /\ IF Exists(u)
       THEN /\ account' = [account EXCEPT ![u] =
                 [status |-> "disabled", sessionInvalidatedAt |-> disabling[u]]]
            /\ session' = [s \in Sessions |->
                 [session[s] EXCEPT !.outlived =
                   @ \/ /\ session[s].status # "absent"
                        /\ session[s].user = u
                        /\ session[s].createdAt <= disabling[u]]]
       ELSE UNCHANGED <<account, session>>    \* UserAccountNotFound
  /\ UNCHANGED <<clock, tenant, issuing, member, granted, request, bootstrap>>

(* MUTANT of enable: it starts from a clean row.                             *)
enable_Clears(u) ==
  /\ Exists(u)
  /\ account' = [account EXCEPT ![u] = [status |-> "active", sessionInvalidatedAt |-> None]]
  /\ UNCHANGED <<clock, disabling, tenant, session, issuing, member, granted,
                 request, bootstrap>>

enable(u) ==
  /\ Exists(u)
  /\ account' = [account EXCEPT ![u].status = "active"]
  /\ UNCHANGED <<clock, disabling, tenant, session, issuing, member, granted,
                 request, bootstrap>>

remove(u) ==
  /\ Exists(u)
  /\ account' = [account EXCEPT ![u].status = "deleted"]
  /\ session' = [s \in Sessions |->
                  IF session[s].user = u THEN [session[s] EXCEPT !.status = "deleted"]
                  ELSE session[s]]
  /\ member' = [m \in DOMAIN member |-> IF m[1] = u THEN "none" ELSE member[m]]
  /\ granted' = {g \in granted : g[1] # u}
  /\ UNCHANGED <<clock, disabling, tenant, issuing, request, bootstrap>>

-----------------------------------------------------------------------------
(* AuthService.                                                            *)

\* issueSession reads the account ...
issueSession(s, u) ==
  /\ session[s].status = "absent" /\ issuing[s] = None
  /\ account[u].status = "active"      \* else not found, or disabled
  /\ issuing' = [issuing EXCEPT ![s] = u]
  /\ UNCHANGED <<clock, account, disabling, tenant, session, member, granted,
                 request, bootstrap>>

(* MUTANT of ExpiresAt: seconds are converted to the clock's unit twice.     *)
ExpiresAt_Twice == clock + 1000 * Ttl

\* expiresAt of a session issued now.
ExpiresAt == clock + Ttl

\* ... and inserts the row, whose foreign key needs the account to exist.
InsertSession(s) ==
  /\ issuing[s] # None
  /\ issuing' = [issuing EXCEPT ![s] = None]
  /\ session' = IF Exists(issuing[s])
                  THEN [session EXCEPT ![s] =
                         [status |-> "live", user |-> issuing[s], createdAt |-> clock,
                          expiresAt |-> ExpiresAt, outlived |-> FALSE]]
                  ELSE session
  /\ UNCHANGED <<clock, account, disabling, tenant, member, granted, request, bootstrap>>

revoke(s) ==
  /\ session[s].status = "live"
  /\ session' = [session EXCEPT ![s].status = "revoked"]
  /\ UNCHANGED <<clock, account, disabling, tenant, issuing, member, granted,
                 request, bootstrap>>

-----------------------------------------------------------------------------
(* A request: BearerAuthLive authenticates it, the handler authorizes it   *)
(* and then calls the service.                                             *)

Finish(q) == request' = [request EXCEPT ![q] = NoRequest]

Proceed(q, pc) == request' = [request EXCEPT ![q].pc = pc]

\* A bearer of session s is over for good: it was revoked, it expired, its
\* account is deleted or was disabled after the session was issued.
Ended(s) ==
  \/ session[s].status # "live"
  \/ session[s].expiresAt <= clock
  \/ session[s].outlived

Arrive(q, s) ==
  /\ request[q].pc = "idle"
  /\ session[s].status # "absent"
  /\ request' = [request EXCEPT ![q] =
       [pc |-> "session", session |-> s, createdAt |-> 0, ended |-> Ended(s)]]
  /\ UNCHANGED <<clock, account, disabling, tenant, session, issuing, member,
                 granted, bootstrap>>

\* authenticate, first statement: the unrevoked, unexpired session row.
authenticate(q) ==
  /\ request[q].pc = "session"
  /\ LET s == session[request[q].session] IN
       IF s.status = "live" /\ s.expiresAt > clock
         THEN request' = [request EXCEPT ![q].pc = "account",
                                         ![q].createdAt = s.createdAt]
         ELSE Finish(q)
  /\ UNCHANGED <<clock, account, disabling, tenant, session, issuing, member,
                 granted, bootstrap>>

SessionPredates(createdAt, row) ==
  /\ row.sessionInvalidatedAt # None
  /\ createdAt <= row.sessionInvalidatedAt

\* authenticate, second statement: the account's authentication state.
getAuthenticationState(q) ==
  /\ request[q].pc = "account"
  /\ LET row == account[session[request[q].session].user] IN
       IF row.status = "active" /\ ~SessionPredates(request[q].createdAt, row)
         THEN Proceed(q, "authorize")
         ELSE Finish(q)
  /\ UNCHANGED <<clock, account, disabling, tenant, session, issuing, member,
                 granted, bootstrap>>

Authorized(u, t, c) == member[<<u, t>>] = "active" /\ <<u, t, c>> \in granted

\* The handler of operation op, called in tenant t on user u; the capability c
\* to grant is an input of grant alone.
authorize(q, t, op, u, c) ==
  /\ request[q].pc = "authorize"
  /\ op # "grant" => c = CapabilityOf[op]
  /\ IF Authorized(session[request[q].session].user, t, CapabilityOf[op])
       THEN request' = [request EXCEPT ![q] =
              [pc |-> "operate", ended |-> @.ended, tenant |-> t, operation |-> op,
               target |-> u, capability |-> c]]
       ELSE Finish(q)
  /\ UNCHANGED <<clock, account, disabling, tenant, session, issuing, member,
                 granted, bootstrap>>

\* The process serving the request dies, or the statement under way fails.
Fail(q) ==
  /\ request[q].pc # "idle"
  /\ Finish(q)
  /\ UNCHANGED <<clock, account, disabling, tenant, session, issuing, member,
                 granted, bootstrap>>

Operates(q, op) == request[q].pc = "operate" /\ request[q].operation = op

\* addMember's insert, when its foreign keys and primary key allow it.
WithMember(u, t) ==
  IF Exists(u) /\ t \in tenant /\ member[<<u, t>>] = "none"
    THEN [member EXCEPT ![<<u, t>>] = "active"] ELSE member

\* UserAccounts.create inserts the account ...
createAccount(q) ==
  /\ Operates(q, "createAccount")
  /\ IF account[request[q].target].status = "absent"
       THEN account' = Inserted(request[q].target) /\ Proceed(q, "enroll")
       ELSE Finish(q) /\ UNCHANGED account       \* UserAccountAlreadyExists
  /\ UNCHANGED <<clock, disabling, tenant, session, issuing, member, granted, bootstrap>>

\* ... and then its membership; Authorization.addMember does only this.
addMember(q) ==
  /\ Operates(q, "addMember") \/ request[q].pc = "enroll"
  /\ member' = WithMember(request[q].target, request[q].tenant)
  /\ Finish(q)
  /\ UNCHANGED <<clock, account, disabling, tenant, session, issuing, granted, bootstrap>>

SetStatus(q, status) ==
  /\ LET m == <<request[q].target, request[q].tenant>> IN
       member' = IF member[m] = "none" THEN member
                 ELSE [member EXCEPT ![m] = status]
  /\ Finish(q)
  /\ UNCHANGED <<clock, account, disabling, tenant, session, issuing, granted, bootstrap>>

suspendMember(q) == Operates(q, "suspendMember") /\ SetStatus(q, "suspended")

activateMember(q) == Operates(q, "activateMember") /\ SetStatus(q, "active")

\* removeMember deletes the membership; its grants go with it.
removeMember(q) ==
  /\ Operates(q, "removeMember")
  /\ LET m == <<request[q].target, request[q].tenant>> IN
       /\ member' = [member EXCEPT ![m] = "none"]
       /\ granted' = {g \in granted : <<g[1], g[2]>> # m}
  /\ Finish(q)
  /\ UNCHANGED <<clock, account, disabling, tenant, session, issuing, bootstrap>>

\* grant reads the membership ...
grant(q) ==
  /\ Operates(q, "grant")
  /\ IF member[<<request[q].target, request[q].tenant>>] = "active"
       THEN Proceed(q, "insert") ELSE Finish(q)
  /\ UNCHANGED <<clock, account, disabling, tenant, session, issuing, member,
                 granted, bootstrap>>

(* MUTANT of WithGrant: no foreign key on the membership.                   *)
WithGrant_NoForeignKey(u, t, c) ==
  IF Exists(u) /\ t \in tenant THEN granted \cup {<<u, t, c>>} ELSE granted

\* ... and inserts the grant: a duplicate, or a membership that is gone by
\* now (memberships_tenant_membership_fkey), is refused.
WithGrant(u, t, c) ==
  IF member[<<u, t>>] # "none" THEN granted \cup {<<u, t, c>>} ELSE granted

InsertGrant(q) ==
  /\ request[q].pc = "insert"
  /\ granted' = WithGrant(request[q].target, request[q].tenant, request[q].capability)
  /\ Finish(q)
  /\ UNCHANGED <<clock, account, disabling, tenant, session, issuing, member, bootstrap>>

-----------------------------------------------------------------------------
(* bootstrapTenant: trusted code, one statement after the other, with no   *)
(* transaction around them: what was done stays when a later one fails.    *)

createTenant(u, t) ==
  /\ bootstrap = NoBootstrap
  /\ t \notin tenant                   \* else TenantAlreadyExists
  /\ tenant' = tenant \cup {t}
  /\ bootstrap' = [pc |-> "addMember", user |-> u, tenant |-> t, next |-> 1]
  /\ UNCHANGED <<clock, account, disabling, session, issuing, member, granted, request>>

BootstrapMember ==
  /\ bootstrap.pc = "addMember"
  /\ member' = WithMember(bootstrap.user, bootstrap.tenant)
  /\ bootstrap' = IF member' # member THEN [bootstrap EXCEPT !.pc = "grant"]
                  ELSE NoBootstrap
  /\ UNCHANGED <<clock, account, disabling, tenant, session, issuing, granted, request>>

\* The next grant finds its membership active, or the bootstrap ends: with
\* an error, or because nothing is left to grant.
BootstrapGrant ==
  /\ bootstrap.pc = "grant"
  /\ bootstrap' = IF /\ bootstrap.next <= Len(bootstrapCapabilities)
                     /\ member[<<bootstrap.user, bootstrap.tenant>>] = "active"
                    THEN [bootstrap EXCEPT !.pc = "insert"] ELSE NoBootstrap
  /\ UNCHANGED <<clock, account, disabling, tenant, session, issuing, member,
                 granted, request>>

BootstrapInsert ==
  /\ bootstrap.pc = "insert"
  /\ granted' = WithGrant(bootstrap.user, bootstrap.tenant,
                          bootstrapCapabilities[bootstrap.next])
  /\ bootstrap' = IF granted' # granted
                    THEN [bootstrap EXCEPT !.pc = "grant", !.next = @ + 1]
                    ELSE NoBootstrap
  /\ UNCHANGED <<clock, account, disabling, tenant, session, issuing, member, request>>

-----------------------------------------------------------------------------
AccessNext ==
  \/ Tick
  \/ \E u \in Users : create(u) \/ disable(u) \/ DisableUpdate(u) \/ enable(u) \/ remove(u)
  \/ \E s \in Sessions : InsertSession(s) \/ revoke(s) \/ \E u \in Users : issueSession(s, u)
  \/ \E q \in Requests :
       \/ \E s \in Sessions : Arrive(q, s)
       \/ authenticate(q) \/ getAuthenticationState(q) \/ Fail(q)
       \/ \E t \in Tenants, op \in Operations, u \in Users, c \in Capabilities :
            authorize(q, t, op, u, c)
       \/ createAccount(q) \/ addMember(q) \/ suspendMember(q) \/ activateMember(q)
       \/ removeMember(q) \/ grant(q) \/ InsertGrant(q)
  \/ \E u \in Users, t \in Tenants : createTenant(u, t)
  \/ BootstrapMember \/ BootstrapGrant \/ BootstrapInsert

AccessSpec == AccessInit /\ [][AccessNext]_accessVars

-----------------------------------------------------------------------------
\* Rows and calls keep their types; a session expires at most Ttl from now.
AccessTypeOK ==
  /\ clock \in Times
  /\ account \in [Users -> AccountRow]
  /\ disabling \in [Users -> Times \cup {None}]
  /\ tenant \subseteq Tenants
  /\ session \in [Sessions -> SessionRow]
  /\ issuing \in [Sessions -> Users \cup {None}]
  /\ member \in [Users \X Tenants -> {"none", "active", "suspended"}]
  /\ granted \subseteq Users \X Tenants \X Capabilities
  /\ request \in [Requests -> RequestRow \cup {NoRequest}]
  /\ bootstrap \in BootstrapRow \cup {NoBootstrap}

\* "Enabling does not make sessions issued before the invalidation timestamp
\* valid again" (docs/decisions/0030), and neither does anything else: no
\* request is served under a session that was over when the request came in,
\* although authenticate reads the session and the account in two statements
\* between which the account may be disabled and enabled any number of times.
EndedSessionsStayEnded ==
  \A q \in Requests :
    request[q].pc \in {"authorize", "operate", "enroll", "insert"} => ~request[q].ended

\* "Removing a membership removes its tenant-scoped grants"
\* (docs/architecture/authorization.md): a user who is admitted to a tenant
\* again starts without capabilities, whatever grant was under way when the
\* membership was removed.
GrantsEndWithMembership ==
  \A g \in granted : member[<<g[1], g[2]>>] # "none"
=============================================================================
