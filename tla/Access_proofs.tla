---------------------------- MODULE Access_proofs ----------------------------
(***************************************************************************)
(* Proofs about accounts, sessions, memberships and grants for any number   *)
(* of users, tenants, sessions, requests and capabilities, any session      *)
(* lifetime and any length of the clock.                                    *)
(***************************************************************************)
EXTENDS Access, TLAPS

USE AccessAssumption

(* A disable under way carries a timestamp no older than the one on the     *)
(* account: one disable of an account is under way at a time.               *)
TimestampsAdvance ==
  \A u \in Users :
    /\ account[u].sessionInvalidatedAt # None =>
         account[u].sessionInvalidatedAt <= clock
    /\ disabling[u] # None =>
         /\ disabling[u] <= clock
         /\ account[u].sessionInvalidatedAt # None =>
              account[u].sessionInvalidatedAt <= disabling[u]

(* A session a disable ended stays older than its account's timestamp.      *)
OutlivedPredates ==
  \A s \in Sessions :
    session[s].outlived =>
      /\ session[s].user \in Users
      /\ SessionPredates(session[s].createdAt, account[session[s].user])

(* A row that exists belongs to a user, and one being issued does not exist. *)
RowsBelong ==
  \A s \in Sessions :
    /\ session[s].status # "absent" <=> session[s].user \in Users
    /\ issuing[s] # None => session[s].status = "absent"

(* What a request read agrees with its session: after the first statement   *)
(* of authenticate only the account's timestamp can still refuse it.        *)
RequestMatchesSession ==
  \A q \in Requests :
    /\ request[q].pc \in {"session", "account"} =>
         session[request[q].session].status # "absent"
    /\ request[q].pc = "session" =>
         (request[q].ended => Ended(request[q].session))
    /\ request[q].pc = "account" =>
         /\ request[q].createdAt = session[request[q].session].createdAt
         /\ request[q].ended => session[request[q].session].outlived

(* bootstrapTenant inserts only grants that are on its list.                *)
BootstrapOnList ==
  bootstrap.pc = "insert" => bootstrap.next <= Len(bootstrapCapabilities)

(* The inductive invariant, in two halves: the rows and the requests.       *)
RowsInv ==
  /\ TimestampsAdvance
  /\ OutlivedPredates
  /\ RowsBelong
  /\ BootstrapOnList
  /\ GrantsEndWithMembership

RequestsInv ==
  /\ request \in [Requests -> RequestRow \cup {NoRequest}]
  /\ RequestMatchesSession
  /\ EndedSessionsStayEnded

AccessInv ==
  /\ AccessTypeOK
  /\ RowsInv
  /\ RequestMatchesSession
  /\ EndedSessionsStayEnded

(* Nobody exists and nothing is under way at the start.                     *)
LEMMA InitInv == AccessInit => AccessInv
  BY DEF AccessInit, AccessInv, RowsInv, AccessTypeOK, TimestampsAdvance, OutlivedPredates,
         RowsBelong, BootstrapOnList, GrantsEndWithMembership, RequestMatchesSession,
         EndedSessionsStayEnded, AccountRow, SessionRow, Times, NoRequest, NoBootstrap

(* A request that read its session keeps agreeing with it when the rows     *)
(* change, as long as no session starts over.                               *)
LEMMA RequestFrame ==
  ASSUME AccessTypeOK, RequestMatchesSession, request' = request,
         \A s \in Sessions : session[s].status # "absent" =>
            /\ session'[s].status # "absent"
            /\ session'[s].createdAt = session[s].createdAt
            /\ session[s].outlived => session'[s].outlived
            /\ Ended(s) => Ended(s)'
  PROVE  RequestMatchesSession'
<1>1. ASSUME NEW q \in Requests, request[q].pc \in {"session", "account"}
      PROVE  request[q].session \in Sessions
  BY <1>1 DEF AccessTypeOK, RequestRow, NoRequest
<1> QED
  BY <1>1 DEF RequestMatchesSession

(* Rows other than accounts, sessions and timestamps do not matter to the   *)
(* half of the invariant that is about ended sessions.                      *)
LEMMA SessionFrame ==
  ASSUME AccessInv, UNCHANGED <<clock, account, disabling, session, issuing>>
  PROVE  /\ (TimestampsAdvance /\ OutlivedPredates /\ RowsBelong)'
         /\ \A s \in Sessions : Ended(s)' = Ended(s)
  BY DEF AccessInv, RowsInv, TimestampsAdvance, OutlivedPredates, RowsBelong,
         SessionPredates, Ended

(* The clock only moves forward, so what is over stays over.                *)
LEMMA TickInv ==
  ASSUME AccessInv, Tick
  PROVE  AccessInv'
<1> USE DEF AccessInv, RowsInv, Tick
<1>1. AccessTypeOK'
  BY DEF AccessTypeOK, Times
<1>2. TimestampsAdvance'
  BY DEF TimestampsAdvance, AccessTypeOK, Times, AccountRow
<1>3. (OutlivedPredates /\ RowsBelong /\ BootstrapOnList /\ GrantsEndWithMembership)'
  BY DEF OutlivedPredates, RowsBelong, BootstrapOnList, GrantsEndWithMembership,
         SessionPredates
<1>4. RequestMatchesSession'
  <2>1. ASSUME NEW s \in Sessions, Ended(s) PROVE Ended(s)'
    BY <2>1 DEF Ended, AccessTypeOK, Times, SessionRow
  <2> QED
    BY <2>1, RequestFrame
<1>5. EndedSessionsStayEnded'
  BY DEF EndedSessionsStayEnded
<1> QED
  BY <1>1, <1>2, <1>3, <1>4, <1>5

(* Creating or enabling an account leaves its timestamp alone.              *)
LEMMA StatusInv ==
  ASSUME AccessInv, NEW u \in Users, create(u) \/ enable(u)
  PROVE  AccessInv'
<1> USE DEF AccessInv, RowsInv
<1>1. PICK status \in {"active"} :
         /\ account' = [account EXCEPT ![u].status = status]
         /\ UNCHANGED <<clock, disabling, tenant, session, issuing, member, granted,
                        request, bootstrap>>
  BY DEF create, enable, Inserted
<1>2. AccessTypeOK'
  BY <1>1 DEF AccessTypeOK, AccountRow
<1>3. \A v \in Users : account'[v].sessionInvalidatedAt = account[v].sessionInvalidatedAt
  BY <1>1 DEF AccessTypeOK, AccountRow
<1>4. (TimestampsAdvance /\ OutlivedPredates)'
  BY <1>1, <1>3 DEF TimestampsAdvance, OutlivedPredates, SessionPredates
<1>5. (RowsBelong /\ BootstrapOnList /\ GrantsEndWithMembership)'
  BY <1>1 DEF RowsBelong, BootstrapOnList, GrantsEndWithMembership
<1>6. (RequestMatchesSession /\ EndedSessionsStayEnded)'
  BY <1>1, RequestFrame DEF EndedSessionsStayEnded, Ended
<1> QED
  BY <1>2, <1>4, <1>5, <1>6

(* A disable reads a timestamp no older than the one on the account.        *)
LEMMA DisableInv ==
  ASSUME AccessInv, NEW u \in Users, disable(u)
  PROVE  AccessInv'
<1> USE DEF AccessInv, RowsInv, disable
<1>1. AccessTypeOK'
  BY DEF AccessTypeOK
<1>2. TimestampsAdvance'
  BY DEF AccessTypeOK, TimestampsAdvance, Times, AccountRow
<1>3. (OutlivedPredates /\ RowsBelong /\ BootstrapOnList /\ GrantsEndWithMembership)'
  BY DEF OutlivedPredates, SessionPredates, RowsBelong, BootstrapOnList, GrantsEndWithMembership
<1>4. (RequestMatchesSession /\ EndedSessionsStayEnded)'
  BY RequestFrame DEF EndedSessionsStayEnded, Ended
<1> QED
  BY <1>1, <1>2, <1>3, <1>4

(* Writing it ends the sessions of the account that are no newer: their     *)
(* rows stay older than the account's timestamp.                            *)
LEMMA DisableUpdateInv ==
  ASSUME AccessInv, NEW u \in Users, DisableUpdate(u)
  PROVE  AccessInv'
<1> USE DEF AccessInv, RowsInv, DisableUpdate
<1>1. disabling[u] \in Times /\ disabling[u] # None
  BY DEF AccessTypeOK
<1>2. CASE ~Exists(u)
  <2>1. AccessTypeOK' /\ TimestampsAdvance'
    BY <1>2 DEF AccessTypeOK, TimestampsAdvance
  <2>2. (OutlivedPredates /\ RowsBelong /\ BootstrapOnList /\ GrantsEndWithMembership)'
    BY <1>2 DEF OutlivedPredates, SessionPredates, RowsBelong, BootstrapOnList,
       GrantsEndWithMembership
  <2>3. (RequestMatchesSession /\ EndedSessionsStayEnded)'
    BY <1>2, RequestFrame DEF EndedSessionsStayEnded, Ended
  <2> QED
    BY <2>1, <2>2, <2>3
<1>3. CASE Exists(u)
  <2> DEFINE Ends(s) == /\ session[s].status # "absent"
                        /\ session[s].user = u
                        /\ session[s].createdAt <= disabling[u]
  <2>1. /\ account'[u].status = "disabled"
        /\ account'[u].sessionInvalidatedAt = disabling[u]
        /\ \A v \in Users \ {u} : account'[v] = account[v]
        /\ account' \in [Users -> AccountRow]
    <3>1. account' = [account EXCEPT ![u] =
            [status |-> "disabled", sessionInvalidatedAt |-> disabling[u]]]
      BY <1>3
    <3>2. [status |-> "disabled", sessionInvalidatedAt |-> disabling[u]] \in AccountRow
      BY <1>1 DEF AccountRow
    <3>3. account \in [Users -> AccountRow]
      BY DEF AccessTypeOK
    <3> QED
      BY <3>1, <3>2, <3>3
  <2>2. ASSUME NEW s \in Sessions
        PROVE  /\ session[s] \in SessionRow
               /\ session'[s] = [session[s] EXCEPT !.outlived = @ \/ Ends(s)]
    BY <1>3 DEF AccessTypeOK
  <2> HIDE DEF Ends
  <2>3. ASSUME NEW s \in Sessions
        PROVE  /\ session'[s] \in SessionRow
               /\ session'[s].status = session[s].status
               /\ session'[s].user = session[s].user
               /\ session'[s].createdAt = session[s].createdAt
               /\ session'[s].expiresAt = session[s].expiresAt
    BY <2>2 DEF SessionRow
  <2>4. ASSUME NEW s \in Sessions
        PROVE  session'[s].outlived <=> (session[s].outlived \/ Ends(s))
    BY <2>2 DEF SessionRow
  <2>5. AccessTypeOK'
    BY <1>3, <2>1, <2>3 DEF AccessTypeOK
  <2>6. TimestampsAdvance'
    BY <1>1, <2>1 DEF AccessTypeOK, AccountRow, TimestampsAdvance, Times
  <2>7. OutlivedPredates'
    <3> SUFFICES ASSUME NEW s \in Sessions, session'[s].outlived
                 PROVE  /\ session'[s].user \in Users
                        /\ SessionPredates(session[s].createdAt, account'[session'[s].user])
      BY <2>3 DEF OutlivedPredates
    <3>1. CASE Ends(s)
      BY <1>1, <2>1, <2>3, <3>1 DEF Ends, SessionPredates
    <3>2. CASE session[s].outlived
      <4> DEFINE v == session[s].user
      <4>1. v \in Users /\ SessionPredates(session[s].createdAt, account[v])
        BY <3>2 DEF OutlivedPredates
      <4>2. CASE v # u
        BY <2>1, <2>3, <4>1, <4>2
      <4>3. CASE v = u
        <5>1. /\ session[s].createdAt <= account[u].sessionInvalidatedAt
              /\ account[u].sessionInvalidatedAt # None
          BY <4>1, <4>3 DEF SessionPredates
        <5>2. account[u].sessionInvalidatedAt <= disabling[u]
          BY <1>1, <5>1 DEF TimestampsAdvance
        <5>3. /\ session[s].createdAt \in Nat /\ disabling[u] \in Nat
              /\ account[u].sessionInvalidatedAt \in Nat
          BY <1>1, <2>2, <5>1 DEF SessionRow, Times, AccessTypeOK, AccountRow
        <5> QED
          BY <1>1, <2>1, <2>3, <4>3, <5>1, <5>2, <5>3 DEF SessionPredates
      <4> QED
        BY <4>2, <4>3
    <3> QED
      BY <2>4, <3>1, <3>2
  <2>8. (RowsBelong /\ BootstrapOnList /\ GrantsEndWithMembership)'
    BY <2>3 DEF RowsBelong, BootstrapOnList, GrantsEndWithMembership
  <2>9. (RequestMatchesSession /\ EndedSessionsStayEnded)'
    <3>1. \A s \in Sessions : Ended(s) => Ended(s)'
      BY <2>3, <2>4 DEF Ended
    <3> QED
      BY <2>3, <2>4, <3>1, RequestFrame DEF EndedSessionsStayEnded
  <2> QED
    BY <2>5, <2>6, <2>7, <2>8, <2>9
<1> QED
  BY <1>2, <1>3

(* Removing an account takes its sessions, memberships and grants along.    *)
LEMMA RemoveInv ==
  ASSUME AccessInv, NEW u \in Users, remove(u)
  PROVE  AccessInv'
<1> USE DEF AccessInv, RowsInv, remove
<1>1. ASSUME NEW v \in Users
      PROVE  /\ account'[v] \in AccountRow
             /\ account'[v].sessionInvalidatedAt = account[v].sessionInvalidatedAt
  BY DEF AccessTypeOK, AccountRow
<1>2. ASSUME NEW s \in Sessions
      PROVE  /\ session'[s] \in SessionRow
             /\ session'[s].status \in {session[s].status, "deleted"}
             /\ session'[s].user = session[s].user
             /\ session'[s].createdAt = session[s].createdAt
             /\ session'[s].expiresAt = session[s].expiresAt
             /\ session'[s].outlived = session[s].outlived
             /\ session[s].user # u => session'[s].status = session[s].status
  <2>1. session[s] \in SessionRow
    BY DEF AccessTypeOK
  <2>2. CASE session[s].user = u
    <3>1. session'[s] = [session[s] EXCEPT !.status = "deleted"]
      BY <2>2
    <3> QED
      BY <2>1, <2>2, <3>1 DEF SessionRow
  <2>3. CASE session[s].user # u
    <3>1. session'[s] = session[s]
      BY <2>3
    <3> QED
      BY <2>1, <3>1
  <2> QED
    BY <2>2, <2>3
<1>3. AccessTypeOK'
  BY <1>1, <1>2 DEF AccessTypeOK
<1>4. (TimestampsAdvance /\ OutlivedPredates /\ BootstrapOnList)'
  BY <1>1, <1>2 DEF TimestampsAdvance, OutlivedPredates, SessionPredates, BootstrapOnList
<1>5. RowsBelong'
  BY <1>2 DEF RowsBelong, AccessTypeOK
<1>6. GrantsEndWithMembership'
  BY DEF AccessTypeOK, GrantsEndWithMembership
<1>7. (RequestMatchesSession /\ EndedSessionsStayEnded)'
  <2>1. \A s \in Sessions : Ended(s) => Ended(s)'
    BY <1>2 DEF Ended
  <2> QED
    BY <1>2, <2>1, RequestFrame DEF EndedSessionsStayEnded
<1> QED
  BY <1>3, <1>4, <1>5, <1>6, <1>7

(* A session is issued with a timestamp of now, and no row starts over.     *)
LEMMA SessionInv ==
  ASSUME AccessInv, NEW s \in Sessions,
         InsertSession(s) \/ revoke(s) \/ \E u \in Users : issueSession(s, u)
  PROVE  AccessInv'
<1> USE DEF AccessInv, RowsInv
<1>1. CASE InsertSession(s) /\ Exists(issuing[s])
  <2> USE <1>1 DEF InsertSession
  <2>1. issuing[s] \in Users /\ session[s].status = "absent"
    BY DEF AccessTypeOK, RowsBelong
  <2> DEFINE row == [status |-> "live", user |-> issuing[s], createdAt |-> clock,
                     expiresAt |-> ExpiresAt, outlived |-> FALSE]
  <2>2. session' = [session EXCEPT ![s] = row]
    OBVIOUS
  <2>3. row \in SessionRow
    BY <2>1 DEF AccessTypeOK, SessionRow, ExpiresAt, Times
  <2>4. AccessTypeOK'
    BY <2>2, <2>3 DEF AccessTypeOK
  <2>5. /\ session'[s] = row
        /\ \A r \in Sessions \ {s} : session'[r] = session[r]
    BY <2>2 DEF AccessTypeOK
  <2>6. (TimestampsAdvance /\ OutlivedPredates /\ BootstrapOnList /\ GrantsEndWithMembership)'
    BY <2>5 DEF TimestampsAdvance, OutlivedPredates, SessionPredates, BootstrapOnList,
       GrantsEndWithMembership
  <2>7. RowsBelong'
    BY <2>1, <2>5 DEF RowsBelong, AccessTypeOK
  <2>8. (RequestMatchesSession /\ EndedSessionsStayEnded)'
    BY <2>1, <2>5, RequestFrame DEF EndedSessionsStayEnded, Ended
  <2> QED
    BY <2>4, <2>6, <2>7, <2>8
<1>2. CASE InsertSession(s) /\ ~Exists(issuing[s])
  BY <1>2, SessionFrame, RequestFrame DEF InsertSession, AccessTypeOK, TimestampsAdvance,
     OutlivedPredates, SessionPredates, RowsBelong, BootstrapOnList, GrantsEndWithMembership,
     EndedSessionsStayEnded, Ended
<1>3. CASE revoke(s)
  <2>1. ASSUME NEW r \in Sessions
        PROVE  /\ session'[r] \in SessionRow
               /\ session'[r].status = "absent" <=> session[r].status = "absent"
               /\ session'[r].status = "live" => session[r].status = "live"
               /\ session'[r].user = session[r].user
               /\ session'[r].createdAt = session[r].createdAt
               /\ session'[r].expiresAt = session[r].expiresAt
               /\ session'[r].outlived = session[r].outlived
    BY <1>3 DEF revoke, AccessTypeOK, SessionRow
  <2>2. AccessTypeOK'
    BY <1>3, <2>1 DEF revoke, AccessTypeOK
  <2>3. (TimestampsAdvance /\ OutlivedPredates /\ BootstrapOnList /\ GrantsEndWithMembership)'
    BY <1>3, <2>1 DEF revoke, TimestampsAdvance, OutlivedPredates, SessionPredates,
       BootstrapOnList, GrantsEndWithMembership
  <2>4. RowsBelong'
    BY <1>3, <2>1 DEF revoke, RowsBelong
  <2>5. (RequestMatchesSession /\ EndedSessionsStayEnded)'
    <3>1. \A r \in Sessions : Ended(r) => Ended(r)'
      BY <1>3, <2>1 DEF revoke, Ended
    <3> QED
      BY <1>3, <2>1, <3>1, RequestFrame DEF revoke, EndedSessionsStayEnded
  <2> QED
    BY <2>2, <2>3, <2>4, <2>5
<1>4. ASSUME NEW u \in Users, issueSession(s, u) PROVE AccessInv'
  <2> USE <1>4 DEF issueSession
  <2>1. AccessTypeOK'
    BY DEF AccessTypeOK
  <2>2. (TimestampsAdvance /\ OutlivedPredates /\ BootstrapOnList /\ GrantsEndWithMembership)'
    BY DEF TimestampsAdvance, OutlivedPredates, SessionPredates, BootstrapOnList,
       GrantsEndWithMembership
  <2>3. RowsBelong'
    BY DEF RowsBelong, AccessTypeOK
  <2>4. (RequestMatchesSession /\ EndedSessionsStayEnded)'
    BY RequestFrame DEF EndedSessionsStayEnded, Ended
  <2> QED
    BY <2>1, <2>2, <2>3, <2>4
<1> QED
  BY <1>1, <1>2, <1>3, <1>4

(* One request moves to a row that agrees with its session and, once        *)
(* authenticated, is not under an ended one: the requests stay right.       *)
LEMMA RequestStep ==
  ASSUME AccessInv, NEW q \in Requests, NEW row \in RequestRow \cup {NoRequest},
         request' = [request EXCEPT ![q] = row], UNCHANGED <<clock, session>>,
         row.pc \in {"session", "account"} => session[row.session].status # "absent",
         row.pc = "session" => (row.ended => Ended(row.session)),
         row.pc = "account" =>
           /\ row.createdAt = session[row.session].createdAt
           /\ row.ended => session[row.session].outlived,
         row.pc \in {"authorize", "operate", "enroll", "insert"} => ~row.ended
  PROVE  RequestsInv'
<1> USE DEF AccessInv, RequestsInv
<1>1. request \in [Requests -> RequestRow \cup {NoRequest}]
  BY DEF AccessTypeOK
<1>2. request'[q] = row /\ \A r \in Requests \ {q} : request'[r] = request[r]
  BY <1>1
<1>3. request' \in [Requests -> RequestRow \cup {NoRequest}]
  BY <1>1
<1>4. RequestMatchesSession'
  BY <1>2 DEF RequestMatchesSession, Ended
<1>5. EndedSessionsStayEnded'
  BY <1>2 DEF EndedSessionsStayEnded
<1> QED
  BY <1>3, <1>4, <1>5

(* A request that ends keeps the requests right.                            *)
LEMMA FinishStep ==
  ASSUME AccessInv, NEW q \in Requests, Finish(q), UNCHANGED <<clock, session>>
  PROVE  RequestsInv'
  BY RequestStep DEF Finish, NoRequest

(* So does one that moves on within its handler.                            *)
LEMMA ProceedStep ==
  ASSUME AccessInv, NEW q \in Requests, request[q].pc = "operate",
         NEW pc \in {"enroll", "insert"}, Proceed(q, pc), UNCHANGED <<clock, session>>
  PROVE  RequestsInv'
<1>1. request[q] \in RequestRow
  BY DEF AccessInv, AccessTypeOK, NoRequest
<1> DEFINE row == [request[q] EXCEPT !.pc = pc]
<1>2. row \in RequestRow /\ row.pc = pc /\ row.ended = request[q].ended
  BY <1>1 DEF RequestRow
<1>3. request' = [request EXCEPT ![q] = row]
  BY DEF Proceed
<1>4. ~request[q].ended
  BY DEF AccessInv, EndedSessionsStayEnded
<1> HIDE DEF row
<1> QED
  BY <1>2, <1>3, <1>4, RequestStep

(* Authentication: no request gets past it under an ended session, although *)
(* the session and the account are read in two statements.                  *)
LEMMA AuthenticationInv ==
  ASSUME AccessInv, NEW q \in Requests,
         \/ \E s \in Sessions : Arrive(q, s)
         \/ authenticate(q)
         \/ getAuthenticationState(q)
         \/ Fail(q)
  PROVE  AccessInv'
<1>1. UNCHANGED <<clock, account, disabling, tenant, session, issuing, member,
                  granted, bootstrap>>
  BY DEF Arrive, authenticate, getAuthenticationState, Fail
<1>2. RequestsInv'
  <2>1. ASSUME NEW s \in Sessions, Arrive(q, s) PROVE RequestsInv'
    <3> DEFINE row == [pc |-> "session", session |-> s, createdAt |-> 0, ended |-> Ended(s)]
    <3>1. row \in RequestRow
      BY DEF RequestRow, Ended, Times
    <3>2. request' = [request EXCEPT ![q] = row] /\ session[row.session].status # "absent"
      BY <2>1 DEF Arrive
    <3> QED
      BY <1>1, <3>1, <3>2, RequestStep
  <2>2. CASE authenticate(q)
    <3> DEFINE s == request[q].session
    <3>1. request[q] \in RequestRow /\ request[q].pc = "session"
      BY <2>2 DEF authenticate, AccessInv, AccessTypeOK, NoRequest
    <3>2. s \in Sessions /\ session[s] \in SessionRow
      BY <3>1 DEF RequestRow, AccessInv, AccessTypeOK
    <3>3. CASE session[s].status = "live" /\ session[s].expiresAt > clock
      <4> DEFINE row == [request[q] EXCEPT !.pc = "account", !.createdAt = session[s].createdAt]
      <4>1. /\ row \in RequestRow /\ row.pc = "account" /\ row.session = s
            /\ row.createdAt = session[s].createdAt /\ row.ended = request[q].ended
        BY <3>1, <3>2 DEF RequestRow, SessionRow
      <4>2. request' = [request EXCEPT ![q] = row]
        BY <2>2, <3>3 DEF authenticate
      <4>3. session[s].status # "absent" /\ (request[q].ended => session[s].outlived)
        BY <3>1, <3>2, <3>3 DEF AccessInv, RequestMatchesSession, Ended, SessionRow, Times,
           AccessTypeOK
      <4> HIDE DEF row
      <4> QED
        BY <1>1, <4>1, <4>2, <4>3, RequestStep
    <3>4. CASE ~(session[s].status = "live" /\ session[s].expiresAt > clock)
      BY <1>1, <2>2, <3>4, FinishStep DEF authenticate
    <3> QED
      BY <3>3, <3>4
  <2>3. CASE getAuthenticationState(q)
    <3> DEFINE s == request[q].session
               account_ == account[session[s].user]
               passes == account_.status = "active" /\ ~SessionPredates(request[q].createdAt, account_)
    <3>1. request[q] \in RequestRow /\ request[q].pc = "account"
      BY <2>3 DEF getAuthenticationState, AccessInv, AccessTypeOK, NoRequest
    <3>2. s \in Sessions
      BY <3>1 DEF RequestRow
    <3>3. CASE passes
      <4> DEFINE row == [request[q] EXCEPT !.pc = "authorize"]
      <4>1. row \in RequestRow /\ row.pc = "authorize" /\ row.ended = request[q].ended
        BY <3>1 DEF RequestRow
      <4>2. request' = [request EXCEPT ![q] = row]
        BY <2>3, <3>3 DEF getAuthenticationState, Proceed
      <4>3. ~request[q].ended
        BY <3>1, <3>2, <3>3 DEF AccessInv, RowsInv, RequestMatchesSession, OutlivedPredates
      <4> HIDE DEF row
      <4> QED
        BY <1>1, <4>1, <4>2, <4>3, RequestStep
    <3>4. CASE ~passes
      BY <1>1, <2>3, <3>4, FinishStep DEF getAuthenticationState
    <3> QED
      BY <3>3, <3>4
  <2>4. CASE Fail(q)
    BY <1>1, <2>4, FinishStep DEF Fail
  <2> QED
    BY <2>1, <2>2, <2>3, <2>4
<1> QED
  BY <1>1, <1>2, SessionFrame DEF AccessInv, RowsInv, RequestsInv, AccessTypeOK,
     BootstrapOnList, GrantsEndWithMembership

(* What a request that is authorized operates on.                           *)
LEMMA OperandTypes ==
  ASSUME AccessInv, NEW q \in Requests, request[q].pc \in {"operate", "enroll", "insert"}
  PROVE  /\ request[q] \in RequestRow
         /\ request[q].target \in Users
         /\ request[q].tenant \in Tenants
         /\ request[q].capability \in Capabilities
  BY DEF AccessInv, AccessTypeOK, RequestRow, NoRequest

(* A membership is added or its status set: nobody loses one, so the grants *)
(* keep theirs.                                                             *)
LEMMA MemberKept ==
  ASSUME AccessInv, NEW m \in Users \X Tenants, NEW status \in {"active", "suspended"},
         member' \in {member, [member EXCEPT ![m] = status]}, granted' = granted
  PROVE  /\ member' \in [Users \X Tenants -> {"none", "active", "suspended"}]
         /\ GrantsEndWithMembership'
<1>1. member \in [Users \X Tenants -> {"none", "active", "suspended"}]
  BY DEF AccessInv, AccessTypeOK
<1>2. \A k \in Users \X Tenants : member[k] # "none" => member'[k] # "none"
  BY <1>1
<1>3. \A g \in granted : <<g[1], g[2]>> \in Users \X Tenants
  BY DEF AccessInv, AccessTypeOK
<1> QED
  BY <1>1, <1>2, <1>3 DEF AccessInv, RowsInv, GrantsEndWithMembership

(* A grant is inserted only under a membership.                             *)
LEMMA GrantKept ==
  ASSUME AccessInv, NEW u \in Users, NEW t \in Tenants, NEW c \in Capabilities,
         granted' = WithGrant(u, t, c), member' = member
  PROVE  /\ granted' \subseteq Users \X Tenants \X Capabilities
         /\ GrantsEndWithMembership'
<1>1. CASE member[<<u, t>>] # "none"
  <2>1. granted' = granted \cup {<<u, t, c>>}
    BY <1>1 DEF WithGrant
  <2>2. \A g \in granted' : g \in granted \/ (g[1] = u /\ g[2] = t)
    BY <2>1
  <2> QED
    BY <1>1, <2>1, <2>2 DEF AccessInv, RowsInv, AccessTypeOK, GrantsEndWithMembership
<1>2. CASE member[<<u, t>>] = "none"
  BY <1>2 DEF WithGrant, AccessInv, RowsInv, AccessTypeOK, GrantsEndWithMembership
<1> QED
  BY <1>1, <1>2

(* Authorization and the operations behind it keep the invariant.           *)
LEMMA OperationInv ==
  ASSUME AccessInv, NEW q \in Requests,
         \/ \E t \in Tenants, op \in Operations, u \in Users, c \in Capabilities :
              authorize(q, t, op, u, c)
         \/ createAccount(q) \/ addMember(q) \/ suspendMember(q) \/ activateMember(q)
         \/ removeMember(q) \/ grant(q) \/ InsertGrant(q)
  PROVE  AccessInv'
<1> DEFINE u == request[q].target
           t == request[q].tenant
           m == <<u, t>>
<1>1. ASSUME NEW t1 \in Tenants, NEW op \in Operations, NEW u1 \in Users,
             NEW c \in Capabilities, authorize(q, t1, op, u1, c)
      PROVE  AccessInv'
  <2> DEFINE row == [pc |-> "operate", ended |-> request[q].ended, tenant |-> t1,
                     operation |-> op, target |-> u1, capability |-> c]
  <2>1. request[q] \in RequestRow /\ request[q].pc = "authorize"
    BY <1>1 DEF authorize, AccessInv, AccessTypeOK, NoRequest
  <2>2. row \in RequestRow /\ ~row.ended /\ row.pc = "operate"
    BY <2>1 DEF RequestRow, AccessInv, EndedSessionsStayEnded
  <2>3. request' = [request EXCEPT ![q] = row] \/ Finish(q)
    BY <1>1 DEF authorize
  <2> HIDE DEF row
  <2>4. RequestsInv'
    BY <1>1, <2>2, <2>3, RequestStep, FinishStep DEF authorize
  <2> QED
    BY <1>1, <2>4, SessionFrame DEF authorize, AccessInv, RowsInv, RequestsInv, AccessTypeOK,
       BootstrapOnList, GrantsEndWithMembership
<1>2. CASE createAccount(q)
  <2>1. request[q].pc = "operate" /\ u \in Users
    BY <1>2, OperandTypes DEF createAccount, Operates
  <2>2. RequestsInv'
    BY <1>2, <2>1, ProceedStep, FinishStep DEF createAccount
  <2>3. CASE account[u].status # "absent"
    BY <1>2, <2>2, <2>3, SessionFrame DEF createAccount, AccessInv, RowsInv, RequestsInv,
       AccessTypeOK, BootstrapOnList, GrantsEndWithMembership
  <2>4. CASE account[u].status = "absent"
    <3>1. account' = [account EXCEPT ![u].status = "active"]
      BY <1>2, <2>4 DEF createAccount, Inserted
    <3>2. /\ account' \in [Users -> AccountRow]
          /\ \A v \in Users : account'[v].sessionInvalidatedAt = account[v].sessionInvalidatedAt
      BY <2>1, <3>1 DEF AccessInv, AccessTypeOK, AccountRow
    <3>3. RowsInv'
      BY <1>2, <3>2 DEF createAccount, AccessInv, RowsInv, TimestampsAdvance, OutlivedPredates,
         SessionPredates, RowsBelong, BootstrapOnList, GrantsEndWithMembership
    <3> QED
      BY <1>2, <2>2, <3>2, <3>3 DEF createAccount, AccessInv, RequestsInv, AccessTypeOK
  <2> QED
    BY <2>3, <2>4
<1>3. CASE addMember(q)
  <2>1. u \in Users /\ t \in Tenants
    BY <1>3, OperandTypes DEF addMember, Operates
  <2>2. RequestsInv'
    BY <1>3, FinishStep DEF addMember
  <2>3. /\ member' \in [Users \X Tenants -> {"none", "active", "suspended"}]
        /\ GrantsEndWithMembership'
    <3>1. m \in Users \X Tenants /\ granted' = granted
      BY <1>3, <2>1 DEF addMember
    <3>2. member' \in {member, [member EXCEPT ![m] = "active"]}
      BY <1>3 DEF addMember, WithMember
    <3> HIDE DEF m
    <3> QED
      BY <3>1, <3>2, MemberKept
  <2> QED
    BY <1>3, <2>2, <2>3, SessionFrame DEF addMember, AccessInv, RowsInv, RequestsInv,
       AccessTypeOK, BootstrapOnList
<1>4. ASSUME NEW status \in {"active", "suspended"}, request[q].pc = "operate",
             SetStatus(q, status)
      PROVE  AccessInv'
  <2>1. m \in Users \X Tenants
    BY <1>4, OperandTypes
  <2>2. RequestsInv'
    BY <1>4, FinishStep DEF SetStatus
  <2>3. /\ member' \in [Users \X Tenants -> {"none", "active", "suspended"}]
        /\ GrantsEndWithMembership'
    BY <1>4, <2>1, MemberKept DEF SetStatus
  <2> QED
    BY <1>4, <2>2, <2>3, SessionFrame DEF SetStatus, AccessInv, RowsInv, RequestsInv,
       AccessTypeOK, BootstrapOnList
<1>5. CASE removeMember(q)
  <2>1. m \in Users \X Tenants
    BY <1>5, OperandTypes DEF removeMember, Operates
  <2>2. RequestsInv'
    BY <1>5, FinishStep DEF removeMember
  <2>3. /\ member' \in [Users \X Tenants -> {"none", "active", "suspended"}]
        /\ granted' \subseteq Users \X Tenants \X Capabilities
        /\ GrantsEndWithMembership'
    <3>1. /\ member' = [member EXCEPT ![m] = "none"]
          /\ granted' = {g \in granted : <<g[1], g[2]>> # m}
      BY <1>5 DEF removeMember
    <3>2. \A g \in granted : <<g[1], g[2]>> \in Users \X Tenants
      BY DEF AccessInv, AccessTypeOK
    <3> HIDE DEF m
    <3> QED
      BY <2>1, <3>1, <3>2 DEF AccessInv, RowsInv, AccessTypeOK, GrantsEndWithMembership
  <2> QED
    BY <1>5, <2>2, <2>3, SessionFrame DEF removeMember, AccessInv, RowsInv, RequestsInv,
       AccessTypeOK, BootstrapOnList
<1>6. CASE grant(q)
  <2>1. RequestsInv'
    BY <1>6, ProceedStep, FinishStep DEF grant, Operates
  <2> QED
    BY <1>6, <2>1, SessionFrame DEF grant, AccessInv, RowsInv, RequestsInv,
       AccessTypeOK, BootstrapOnList, GrantsEndWithMembership
<1>7. CASE InsertGrant(q)
  <2>1. RequestsInv'
    BY <1>7, FinishStep DEF InsertGrant
  <2>2. granted' \subseteq Users \X Tenants \X Capabilities /\ GrantsEndWithMembership'
    BY <1>7, OperandTypes, GrantKept DEF InsertGrant
  <2> QED
    BY <1>7, <2>1, <2>2, SessionFrame DEF InsertGrant, AccessInv, RowsInv, RequestsInv,
       AccessTypeOK, BootstrapOnList
<1> QED
  BY <1>1, <1>2, <1>3, <1>4, <1>5, <1>6, <1>7 DEF suspendMember, activateMember, Operates

(* bootstrapTenant keeps the invariant, wherever it stops.                  *)
LEMMA BootstrapInv ==
  ASSUME AccessInv,
         \/ \E u \in Users, t \in Tenants : createTenant(u, t)
         \/ BootstrapMember \/ BootstrapGrant \/ BootstrapInsert
  PROVE  AccessInv'
<1> USE DEF AccessInv
<1>1. UNCHANGED <<clock, account, disabling, session, issuing, request>>
  BY DEF createTenant, BootstrapMember, BootstrapGrant, BootstrapInsert
<1>2. RequestMatchesSession' /\ EndedSessionsStayEnded'
  BY <1>1, RequestFrame DEF EndedSessionsStayEnded, Ended
<1>3. (TimestampsAdvance /\ OutlivedPredates /\ RowsBelong)'
  BY <1>1, SessionFrame
<1>4. bootstrap.pc \in {"addMember", "grant", "insert"} => bootstrap \in BootstrapRow
  BY DEF AccessTypeOK, NoBootstrap
<1>5. Len(bootstrapCapabilities) \in Nat
  OBVIOUS
<1>6. AccessTypeOK' /\ BootstrapOnList' /\ GrantsEndWithMembership'
  <2>1. ASSUME NEW u \in Users, NEW t \in Tenants, createTenant(u, t)
        PROVE  <1>6
    BY <1>5, <2>1 DEF createTenant, AccessTypeOK, BootstrapRow, RowsInv, BootstrapOnList,
       GrantsEndWithMembership, NoBootstrap
  <2>2. CASE BootstrapMember
    <3>1. bootstrap \in BootstrapRow
      BY <1>4, <2>2 DEF BootstrapMember
    <3>2. /\ member' \in [Users \X Tenants -> {"none", "active", "suspended"}]
          /\ GrantsEndWithMembership'
      <4> DEFINE m == <<bootstrap.user, bootstrap.tenant>>
      <4>1. m \in Users \X Tenants /\ granted' = granted
        BY <2>2, <3>1 DEF BootstrapMember, BootstrapRow
      <4>2. member' \in {member, [member EXCEPT ![m] = "active"]}
        BY <2>2 DEF BootstrapMember, WithMember
      <4> HIDE DEF m
      <4> QED
        BY <4>1, <4>2, MemberKept
    <3>3. bootstrap' \in BootstrapRow \cup {NoBootstrap} /\ BootstrapOnList'
      BY <1>5, <2>2, <3>1 DEF BootstrapMember, BootstrapRow, NoBootstrap, BootstrapOnList
    <3> QED
      BY <1>1, <2>2, <3>2, <3>3 DEF BootstrapMember, AccessTypeOK
  <2>3. CASE BootstrapGrant
    <3>1. bootstrap \in BootstrapRow
      BY <1>4, <2>3 DEF BootstrapGrant
    <3>2. bootstrap' \in BootstrapRow \cup {NoBootstrap} /\ BootstrapOnList'
      BY <1>5, <2>3, <3>1 DEF BootstrapGrant, BootstrapRow, NoBootstrap, BootstrapOnList
    <3> QED
      BY <1>1, <2>3, <3>2 DEF BootstrapGrant, AccessTypeOK, RowsInv, GrantsEndWithMembership
  <2>4. CASE BootstrapInsert
    <3>1. /\ bootstrap \in BootstrapRow
          /\ bootstrap.next \in 1 .. Len(bootstrapCapabilities)
      BY <1>4, <1>5, <2>4 DEF BootstrapInsert, BootstrapRow, RowsInv, BootstrapOnList
    <3>2. /\ granted' \subseteq Users \X Tenants \X Capabilities
          /\ GrantsEndWithMembership'
      BY <2>4, <3>1, GrantKept DEF BootstrapInsert, BootstrapRow
    <3>3. bootstrap' \in BootstrapRow \cup {NoBootstrap} /\ BootstrapOnList'
      <4> DEFINE row == [bootstrap EXCEPT !.pc = "grant", !.next = @ + 1]
      <4>1. row \in BootstrapRow /\ row.pc = "grant"
        <5>1. bootstrap.next + 1 \in 1 .. Len(bootstrapCapabilities) + 1
          BY <1>5, <3>1
        <5> QED
          BY <3>1, <5>1 DEF BootstrapRow
      <4>2. bootstrap' \in {row, NoBootstrap}
        BY <2>4 DEF BootstrapInsert
      <4> HIDE DEF row
      <4> QED
        BY <4>1, <4>2 DEF NoBootstrap, BootstrapOnList
    <3> QED
      BY <1>1, <2>4, <3>2, <3>3 DEF BootstrapInsert, AccessTypeOK
  <2> QED
    BY <2>1, <2>2, <2>3, <2>4
<1> QED
  BY <1>2, <1>3, <1>6 DEF RowsInv

(* Every step keeps the invariant.                                          *)
LEMMA NextInv ==
  ASSUME AccessInv, [AccessNext]_accessVars
  PROVE  AccessInv'
<1>1. CASE UNCHANGED accessVars
  BY <1>1, SessionFrame, RequestFrame DEF accessVars, AccessInv, RowsInv, AccessTypeOK,
     BootstrapOnList, GrantsEndWithMembership, EndedSessionsStayEnded
<1> QED
  BY <1>1, TickInv, StatusInv, DisableInv, DisableUpdateInv, RemoveInv, SessionInv,
     AuthenticationInv, OperationInv, BootstrapInv DEF AccessNext

(* The inductive invariant holds in every reachable state.                  *)
THEOREM AccessInvariant == AccessSpec => []AccessInv
<1>1. AccessInit => AccessInv
  BY InitInv
<1>2. AccessInv /\ [AccessNext]_accessVars => AccessInv'
  BY NextInv
<1> QED
  BY <1>1, <1>2, PTL DEF AccessSpec

(* Rows and calls keep their types, and a session expires at most Ttl from  *)
(* when it was issued.                                                      *)
THEOREM AccessTypeCorrect == AccessSpec => []AccessTypeOK
<1>1. AccessInv => AccessTypeOK
  BY DEF AccessInv
<1> QED
  BY <1>1, AccessInvariant, PTL

(* No request is served under a session that was over when it came in:      *)
(* enabling an account brings none back, however disable, enable and the    *)
(* two reads of authenticate interleave.                                    *)
THEOREM SessionsStayEnded == AccessSpec => []EndedSessionsStayEnded
<1>1. AccessInv => EndedSessionsStayEnded
  BY DEF AccessInv
<1> QED
  BY <1>1, AccessInvariant, PTL

(* No grant survives, or is inserted after, the removal of its membership.  *)
THEOREM GrantsEnd == AccessSpec => []GrantsEndWithMembership
<1>1. AccessInv => GrantsEndWithMembership
  BY DEF AccessInv, RowsInv
<1> QED
  BY <1>1, AccessInvariant, PTL

=============================================================================
