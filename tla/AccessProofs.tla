---------------------------- MODULE AccessProofs ----------------------------
(***************************************************************************)
(* Proofs about Access, for any users, roles, policies and requests in     *)
(* flight: types; what the guard said was right while not both of its      *)
(* readings went stale; a role that went takes its members and policies    *)
(* with it; a password that was given is marked; and the menu offers what  *)
(* the guard allows.                                                       *)
(*                                                                         *)
(* A step is that of one request (Ask or Handle) followed by Remember.     *)
(* Most lemmas are about one kind of step and say what it leaves alone;    *)
(* the invariants are then proved from those.  The second half of the      *)
(* module is about ControlPlane, and stands on its own.                    *)
(***************************************************************************)
EXTENDS Access, ControlPlane, FiniteSetTheorems, TLAPS

-----------------------------------------------------------------------------
(* The invariants *)

Fields == {"pc", "kind", "by", "of", "arg", "read", "verdict"}

\* What a request that is under way asks for, and what it found.
Found(q, users) ==
  /\ q.kind \in {"set password", "delete user"} => users[q.of] # None
  /\ q.kind = "start" => q.read.role \in Roles \union {"none"}
Placed(q, users, roles) ==
  /\ users[q.by] # None
  /\ q.kind \in {"create user", "set roles"} => q.of \in Users /\ q.arg \subseteq Roles
  /\ q.kind \in {"set password", "delete user"} => q.of \in Users
  /\ q.kind \in {"rename role", "delete role", "add member", "remove member"} =>
       q.of \in Roles /\ roles[q.of] # "none"
  /\ q.kind \in {"add member", "remove member"} => q.arg \in Users
  /\ q.kind \in {"create policy", "update policy"} => q.arg \in Body
  /\ q.kind \in {"update policy", "delete policy"} => q.of \in Policies
  /\ q.pc = "commit" => Found(q, users)

TablesOK ==
  /\ user \in [Users -> UserRow \union {None}]
  /\ role \in [Roles -> RoleNames \union {"none", "gone"}]
  /\ member \subseteq Users \X Roles
  /\ policy \in [Policies -> Body \union {None, Gone}]

RequestOK(q, users, roles) ==
  /\ DOMAIN q = Fields
  /\ q.pc \in {"idle", "roles", "policies", "look", "commit", "denied"}
  /\ q.by \in Users
  /\ q.verdict \in {"none", "allowed", "denied"}
  /\ q.pc # "idle" => Placed(q, users, roles)

RequestsOK ==
  DOMAIN request = Processes /\ \A a \in Processes : RequestOK(request[a], user, role)

CountsOK == asked \in 0 .. MaxRequests /\ raced \subseteq Users /\ strayed \subseteq Roles

\* A ghost is what the properties remember.
GhostsOK == \A a \in Processes : seen[a] \subseteq BOOLEAN /\ moved[a] \subseteq {"roles", "policies"}

TypeInv == TablesOK /\ RequestsOK /\ CountsOK /\ GhostsOK

\* While the guard of a request q reads, what it should say now has been noted.
\* The roles it read are those of its user, or "roles" moved; with them the
\* policies say what was noted, or "policies" moved.
GuardOf(a, q) ==
  /\ q.pc \in {"idle", "roles", "policies"} => q.verdict = "none"
  /\ q.pc \in {"roles", "policies"} => Entitled(q.by, member, policy) \in seen[a]
  /\ q.pc = "policies" =>
       /\ "roles" \in moved[a] \/ q.read = RoleIds(q.by)
       /\ "policies" \in moved[a] \/ IsAllowed(RowsFor(q.by, q.read), "manage", "*") \in seen[a]
  /\ q.verdict # "none" /\ moved[a] # {"roles", "policies"} => (q.verdict = "allowed") \in seen[a]
GuardInv == \A a \in Processes : GuardOf(a, request[a])

\* What is left of a role.
Members(r) == {m \in member : m[2] = r}
Grants(r) == {p \in Rows : policy[p].role = r}

\* A deletion has read all there is of its role, except of one that strayed.
DeletionInv ==
  \A a \in Processes :
    Is(a, "delete role", "commit") /\ Of(a) \notin strayed =>
      Members(Of(a)) \subseteq Read(a).pairs /\ Grants(Of(a)) \subseteq Read(a).rows

-----------------------------------------------------------------------------
(* Types *)

\* Users and roles that there are never cease to have a row.
Grown ==
  /\ \A u \in Users : user[u] # None => user'[u] # None
  /\ \A r \in Roles : role[r] # "none" => role'[r] # "none"

\* What a step of a request leaves well typed.
StepOK(a) ==
  /\ TablesOK' /\ Grown
  /\ raced' \subseteq Users /\ strayed' \subseteq Roles
  /\ RequestOK(request'[a], user', role')

\* One request is written, the others stand.
LEMMA BecomesThat ==
  ASSUME RequestsOK, NEW a \in Processes, NEW q, Becomes(a, q)
  PROVE  /\ DOMAIN request' = Processes /\ request'[a] = q
         /\ \A b \in Processes : b # a => request'[b] = request[b]
BY DEF RequestsOK, Becomes

LEMMA IdleOK == \A users, roles : RequestOK(Idle, users, roles)
BY AccessAssumption DEF RequestOK, Idle, Fields

LEMMA TablesStand ==
  ASSUME TypeInv, UNCHANGED <<tables, raced, strayed>>
  PROVE  TablesOK' /\ Grown /\ raced' \subseteq Users /\ strayed' \subseteq Roles
BY DEF TypeInv, TablesOK, Grown, tables, CountsOK, Rows

LEMMA EndsType ==
  ASSUME TypeInv, NEW a \in Processes, Ends(a)
  PROVE  StepOK(a)
<1>1. request'[a] = Idle
  BY BecomesThat DEF Ends, TypeInv
<1> QED
  BY <1>1, IdleOK, TablesStand DEF StepOK, Ends

LEMMA ReadsType ==
  ASSUME TypeInv, NEW a \in Processes, NEW read, Reads(a, read), request[a].pc # "idle",
         request[a].kind \in {"set password", "delete user"} => user[Of(a)] # None,
         request[a].kind = "start" => read.role \in Roles \union {"none"}
  PROVE  StepOK(a)
<1> DEFINE q == [request[a] EXCEPT !.pc = "commit", !.read = read]
<1>1. request'[a] = q
  BY BecomesThat DEF Reads, TypeInv
<1>2. RequestOK(request[a], user, role)
  BY DEF TypeInv, RequestsOK
<1>3. /\ DOMAIN q = Fields /\ q.pc = "commit" /\ q.read = read /\ q.kind = request[a].kind
      /\ q.by = request[a].by /\ q.of = request[a].of /\ q.arg = request[a].arg
      /\ q.verdict = request[a].verdict
  BY <1>2 DEF RequestOK, Fields
<1>4. user' = user /\ role' = role
  BY DEF Reads, tables
<1>5. RequestOK(q, user, role)
  <2> HIDE DEF q
  <2> QED
    BY <1>2, <1>3 DEF RequestOK, Placed, Found, Of
<1> QED
  BY <1>1, <1>4, <1>5, TablesStand DEF StepOK, Reads

LEMMA GuardType ==
  ASSUME TypeInv, NEW a \in Processes, Guard(a)
  PROVE  StepOK(a)
<1>1. RequestOK(request[a], user, role)
  BY DEF TypeInv, RequestsOK
<1>2. CASE ReadRoles(a)
  <2> DEFINE q == [request[a] EXCEPT !.pc = "policies", !.read = RoleIds(request[a].by)]
  <2>1. request'[a] = q /\ user' = user /\ role' = role
    BY <1>2, BecomesThat DEF ReadRoles, TypeInv, tables
  <2>2. /\ DOMAIN q = Fields /\ q.pc = "policies" /\ q.kind = request[a].kind
        /\ q.by = request[a].by /\ q.of = request[a].of /\ q.arg = request[a].arg
        /\ q.verdict = request[a].verdict
    BY <1>1 DEF RequestOK, Fields
  <2>3. RequestOK(q, user, role)
    <3> HIDE DEF q
    <3> QED
      BY <1>1, <1>2, <2>2 DEF RequestOK, Placed, ReadRoles
  <2> QED
    BY <1>2, <2>1, <2>3, TablesStand DEF StepOK, ReadRoles
<1>3. CASE Judge(a)
  <2> PICK v \in {"allowed", "denied"}, pc \in {"look", "denied"} :
        Becomes(a, [request[a] EXCEPT !.verdict = v, !.pc = pc, !.read = None])
    BY <1>3 DEF Judge
  <2> DEFINE q == [request[a] EXCEPT !.verdict = v, !.pc = pc, !.read = None]
  <2>1. request'[a] = q /\ user' = user /\ role' = role
    BY <1>3, BecomesThat DEF Judge, TypeInv, tables
  <2>2. /\ DOMAIN q = Fields /\ q.pc = pc /\ q.kind = request[a].kind
        /\ q.by = request[a].by /\ q.of = request[a].of /\ q.arg = request[a].arg
        /\ q.verdict = v
    BY <1>1 DEF RequestOK, Fields
  <2>3. RequestOK(q, user, role)
    <3> HIDE DEF q
    <3> QED
      BY <1>1, <1>3, <2>2 DEF RequestOK, Placed, Judge
  <2> QED
    BY <1>3, <2>1, <2>3, TablesStand DEF StepOK, Judge
<1>4. CASE Denied(a)
  BY <1>4, EndsType DEF Denied
<1> QED
  BY <1>2, <1>3, <1>4 DEF Guard

\* The look-ups write nothing.
LEMMA LookType ==
  ASSUME TypeInv, NEW a \in Processes,
         \/ LookForNoUser(a) \/ LookForUser(a) \/ LookForSelf(a) \/ LookForName(a)
         \/ LookForRole(a) \/ LookForPolicy(a) \/ LookForDefaults(a)
  PROVE  StepOK(a)
<1>1. CASE LookForNoUser(a)
  BY <1>1, EndsType, ReadsType DEF LookForNoUser, Is
<1>2. CASE LookForUser(a)
  BY <1>2, EndsType, ReadsType DEF LookForUser, Is
<1>3. CASE LookForSelf(a)
  BY <1>3, EndsType, ReadsType DEF LookForSelf, Is
<1>4. CASE LookForName(a)
  BY <1>4, EndsType, ReadsType DEF LookForName, Is
<1>5. CASE LookForRole(a)
  BY <1>5, EndsType, ReadsType DEF LookForRole, Is
<1>6. CASE LookForPolicy(a)
  BY <1>6, EndsType, ReadsType DEF LookForPolicy, Is
<1>7. CASE LookForDefaults(a)
  <2>1. PICK r \in IF AdminRoles = {} THEN {"none"} ELSE AdminRoles :
          Reads(a, [user |-> user[Seed] # None, role |-> r,
                    bound |-> r # "none" /\ <<Seed, r>> \in member, rows |-> Rows # {}])
    BY <1>7 DEF LookForDefaults
  <2>2. r \in Roles \union {"none"}
    BY DEF AdminRoles
  <2> QED
    BY <1>7, <2>1, <2>2, ReadsType DEF LookForDefaults, Is
<1> QED
  BY <1>1, <1>2, <1>3, <1>4, <1>5, <1>6, <1>7

LEMMA WriteType ==
  ASSUME TypeInv, NEW a \in Processes, Becomes(a, Idle), TablesOK', Grown,
         raced' \subseteq Users, UNCHANGED strayed \/ \E rs : Named(rs)
  PROVE  StepOK(a)
<1>1. request'[a] = Idle
  BY BecomesThat DEF TypeInv
<1>2. strayed' \subseteq Roles
  BY DEF TypeInv, CountsOK, Named
<1> QED
  BY <1>1, <1>2, IdleOK DEF StepOK

\* What a request under way is about.
LEMMA PlacedNow ==
  ASSUME TypeInv, NEW a \in Processes, request[a].pc # "idle"
  PROVE  request[a].by \in Users /\ Placed(request[a], user, role)
BY DEF TypeInv, RequestsOK, RequestOK

LEMMA UserType ==
  ASSUME TypeInv, NEW a \in Processes, UserStep(a)
  PROVE  StepOK(a)
<1> USE DEF Is, Of, Arg
<1>0. TablesOK /\ raced \subseteq Users /\ strayed \subseteq Roles
  BY DEF TypeInv, CountsOK
<1>1. CASE LookForNoUser(a) \/ LookForUser(a) \/ LookForSelf(a)
  BY <1>1, LookType
<1>2. CASE CreateUser(a)
  <2>1. Of(a) \in Users /\ Arg(a) \subseteq Roles
    BY <1>2, PlacedNow DEF CreateUser, Placed
  <2>2. CASE user[Of(a)] = None /\ ~Clash(Of(a), Read(a), Arg(a))
    <3>1. PICK given \in BOOLEAN : user' = [user EXCEPT ![Of(a)] =
            [password |-> IF given THEN "given" ELSE "none", must |-> given, deleted |-> FALSE]]
      BY <1>2, <2>2 DEF CreateUser
    <3>2. [password |-> IF given THEN "given" ELSE "none", must |-> given, deleted |-> FALSE] \in UserRow
      BY DEF UserRow
    <3>3. /\ UNCHANGED <<role, policy, raced>> /\ Becomes(a, Idle) /\ Named(Arg(a))
          /\ member' = Synced(Of(a), Read(a), Arg(a))
      BY <1>2, <2>2 DEF CreateUser
    <3>4. TablesOK' /\ Grown
      BY <1>0, <2>1, <3>1, <3>2, <3>3, AccessAssumption DEF TablesOK, Grown, Synced
    <3> QED
      BY <1>0, <3>3, <3>4, WriteType
  <2>3. CASE Ends(a)
    BY <2>3, EndsType
  <2> QED
    BY <1>2, <2>2, <2>3 DEF CreateUser
<1>3. CASE SetRoles(a)
  <2>1. Of(a) \in Users /\ Arg(a) \subseteq Roles
    BY <1>3, PlacedNow DEF SetRoles, Placed
  <2>2. CASE Ends(a)
    BY <2>2, EndsType
  <2>3. CASE ~Ends(a)
    <3>1. /\ UNCHANGED <<user, role, policy, raced>> /\ Becomes(a, Idle) /\ Named(Arg(a))
          /\ member' = Synced(Of(a), Read(a), Arg(a))
      BY <1>3, <2>3 DEF SetRoles
    <3>2. TablesOK' /\ Grown
      BY <1>0, <2>1, <3>1 DEF TablesOK, Grown, Synced
    <3> QED
      BY <1>0, <3>1, <3>2, WriteType
  <2> QED
    BY <2>2, <2>3
<1>4. ASSUME NEW u \in Users, NEW password \in {"given", "theirs"}, NEW must \in BOOLEAN,
             user[u] # None, Rewrite(a, u, password, must)
      PROVE  StepOK(a)
  <2>1. user[u] \in UserRow
    BY <1>0, <1>4 DEF TablesOK
  <2>2. PICK m \in BOOLEAN : user' = [user EXCEPT ![u].password = password, ![u].must = m]
    <3>1. user[u].must \in BOOLEAN
      BY <2>1 DEF UserRow
    <3>2. CASE Read(a).must = must
      BY <1>0, <1>4, <3>1, <3>2 DEF Rewrite, TablesOK
    <3>3. CASE Read(a).must # must
      BY <1>0, <1>4, <3>3 DEF Rewrite, TablesOK
    <3> QED
      BY <3>2, <3>3
  <2>3. user'[u] \in UserRow /\ \A v \in Users : v # u => user'[v] = user[v]
    BY <1>0, <2>1, <2>2 DEF TablesOK, UserRow
  <2>4. user' \in [Users -> UserRow \union {None}]
    BY <1>0, <2>2, <2>3 DEF TablesOK
  <2>5. UNCHANGED <<role, member, policy, strayed>> /\ Becomes(a, Idle) /\ raced' \subseteq Users
    BY <1>0, <1>4 DEF Rewrite
  <2>6. TablesOK' /\ Grown
    BY <1>0, <2>3, <2>4, <2>5, AccessAssumption DEF TablesOK, Grown
  <2> QED
    BY <2>5, <2>6, WriteType
<1>5. CASE SetPassword(a)
  BY <1>4, <1>5, PlacedNow DEF SetPassword, Placed, Found
<1>6. CASE ChangePassword(a)
  BY <1>4, <1>6, PlacedNow DEF ChangePassword, Placed
<1>7. CASE DeleteUser(a)
  <2>1. Of(a) \in Users /\ user[Of(a)] # None
    BY <1>7, PlacedNow DEF DeleteUser, Placed, Found
  <2>2. user[Of(a)] \in UserRow
    BY <1>0, <2>1 DEF TablesOK
  <2>3. [user[Of(a)] EXCEPT !.deleted = TRUE] \in UserRow
    BY <2>2 DEF UserRow
  <2>4. user' = [user EXCEPT ![Of(a)] = [user[Of(a)] EXCEPT !.deleted = TRUE]]
    BY <1>7 DEF DeleteUser
  <2>5. UNCHANGED <<role, policy, raced, strayed>> /\ Becomes(a, Idle) /\ member' \subseteq member
    BY <1>7 DEF DeleteUser
  <2>6. TablesOK' /\ Grown
    BY <1>0, <2>1, <2>3, <2>4, <2>5, AccessAssumption DEF TablesOK, Grown
  <2> QED
    BY <1>0, <2>5, <2>6, WriteType
<1> QED
  BY <1>1, <1>2, <1>3, <1>5, <1>6, <1>7 DEF UserStep

LEMMA Fresh ==
  /\ MoreRoles => FreshRole \in Roles /\ role[FreshRole] = "none"
  /\ MorePolicies => FreshPolicy \in Policies /\ policy[FreshPolicy] = None
BY DEF MoreRoles, FreshRole, MorePolicies, FreshPolicy

LEMMA AllowType ==
  ASSUME NEW r \in Roles \union {AnyOne}, NEW x \in Actions
  PROVE  Allow(r, x) \in Body /\ Allow(r, x).role = r
BY DEF Allow, Body

LEMMA RoleType ==
  ASSUME TypeInv, NEW a \in Processes, RoleStep(a)
  PROVE  StepOK(a)
<1> USE DEF Is, Of, Arg
<1>0. TablesOK /\ raced \subseteq Users /\ strayed \subseteq Roles
  BY DEF TypeInv, CountsOK
<1>1. CASE LookForName(a) \/ LookForRole(a)
  BY <1>1, LookType
<1>2. CASE CreateRole(a)
  <2>1. UNCHANGED <<user, member, policy, raced, strayed>> /\ Becomes(a, Idle)
    BY <1>2 DEF CreateRole
  <2>2. TablesOK' /\ Grown
    BY <1>0, <1>2, <2>1, Fresh DEF TablesOK, Grown, CreateRole, RoleNames
  <2> QED
    BY <1>0, <2>1, <2>2, WriteType
<1>3. CASE UseTemplate(a)
  <2>1. UNCHANGED <<user, member, raced, strayed>> /\ Becomes(a, Idle)
    BY <1>3 DEF UseTemplate
  <2>2. Allow(FreshRole, "manage") \in Body
    BY <1>3, Fresh, AllowType DEF UseTemplate, Actions
  <2>3. TablesOK' /\ Grown
    BY <1>0, <1>3, <2>1, <2>2, Fresh DEF TablesOK, Grown, UseTemplate, RoleNames
  <2> QED
    BY <1>0, <2>1, <2>3, WriteType
<1>4. CASE RenameRole(a)
  <2>1. CASE Ends(a)
    BY <2>1, EndsType
  <2>2. CASE ~Ends(a)
    <3>1. /\ UNCHANGED <<user, member, policy, raced, strayed>> /\ Becomes(a, Idle)
          /\ role' = [role EXCEPT ![Of(a)] = "other"]
      BY <1>4, <2>2 DEF RenameRole
    <3>2. TablesOK' /\ Grown
      BY <1>0, <3>1 DEF TablesOK, Grown, RoleNames
    <3> QED
      BY <1>0, <3>1, <3>2, WriteType
  <2> QED
    BY <2>1, <2>2
<1>5. CASE DeleteRole(a)
  <2>1. UNCHANGED <<user, raced, strayed>> /\ Becomes(a, Idle) /\ member' \subseteq member
    BY <1>5 DEF DeleteRole
  <2>2. TablesOK' /\ Grown
    BY <1>0, <1>5, <2>1 DEF TablesOK, Grown, DeleteRole
  <2> QED
    BY <1>0, <2>1, <2>2, WriteType
<1>6. CASE AddMember(a)
  <2>1. CASE Ends(a)
    BY <2>1, EndsType
  <2>2. CASE ~Ends(a)
    <3>1. /\ UNCHANGED <<user, role, policy, raced>> /\ Becomes(a, Idle) /\ Named({Of(a)})
          /\ member' = member \union {<<Arg(a), Of(a)>>}
      BY <1>6, <2>2 DEF AddMember
    <3>2. Arg(a) \in Users /\ Of(a) \in Roles
      BY <1>6, PlacedNow DEF AddMember, Placed
    <3>3. TablesOK' /\ Grown
      BY <1>0, <3>1, <3>2 DEF TablesOK, Grown
    <3> QED
      BY <1>0, <3>1, <3>3, WriteType
  <2> QED
    BY <2>1, <2>2
<1>7. CASE RemoveMember(a)
  <2>1. /\ UNCHANGED <<user, role, policy, raced, strayed>> /\ Becomes(a, Idle)
        /\ member' \subseteq member
    BY <1>7 DEF RemoveMember
  <2>2. TablesOK' /\ Grown
    BY <1>0, <2>1 DEF TablesOK, Grown
  <2> QED
    BY <1>0, <2>1, <2>2, WriteType
<1> QED
  BY <1>1, <1>2, <1>3, <1>4, <1>5, <1>6, <1>7 DEF RoleStep

\* A policy some of whose columns are of one request and some of another.
LEMMA Mixed ==
  ASSUME NEW x \in Body, NEW y \in Body, NEW read
  PROVE  LET z == [c \in DOMAIN x |-> IF x[c] = read[c] THEN y[c] ELSE x[c]]
         IN z \in Body /\ z.role \in {x.role, y.role}
<1> DEFINE z == [c \in DOMAIN x |-> IF x[c] = read[c] THEN y[c] ELSE x[c]]
<1>1. DOMAIN x = {"user", "role", "effect", "action", "resource"}
  BY DEF Body
<1>2. z = [user |-> z.user, role |-> z.role, effect |-> z.effect, action |-> z.action,
           resource |-> z.resource]
  BY <1>1
<1>3. /\ z.user \in {x.user, y.user} /\ z.role \in {x.role, y.role}
      /\ z.effect \in {x.effect, y.effect} /\ z.action \in {x.action, y.action}
      /\ z.resource \in {x.resource, y.resource}
  BY <1>1
<1>4. z \in Body
  <2> HIDE DEF z
  <2> QED
    BY <1>2, <1>3 DEF Body
<1> QED
  BY <1>3, <1>4

LEMMA PolicyType ==
  ASSUME TypeInv, NEW a \in Processes, PolicyStep(a)
  PROVE  StepOK(a)
<1> USE DEF Is, Of, Arg
<1>0. TablesOK /\ raced \subseteq Users /\ strayed \subseteq Roles
  BY DEF TypeInv, CountsOK
<1>1. CASE CreatePolicy(a)
  <2>1. Arg(a) \in Body
    BY <1>1, PlacedNow DEF CreatePolicy, Placed
  <2>2. UNCHANGED <<user, role, member, raced>> /\ Becomes(a, Idle) /\ Named({Arg(a).role})
    BY <1>1 DEF CreatePolicy
  <2>3. TablesOK' /\ Grown
    BY <1>0, <1>1, <2>1, <2>2, Fresh DEF TablesOK, Grown, CreatePolicy
  <2> QED
    BY <1>0, <2>2, <2>3, WriteType
<1>2. CASE LookForPolicy(a)
  BY <1>2, LookType
<1>3. CASE UpdatePolicy(a)
  <2>1. CASE Ends(a)
    BY <2>1, EndsType
  <2>2. CASE ~Ends(a)
    <3> DEFINE z == [c \in DOMAIN Arg(a) |->
                       IF Arg(a)[c] = Read(a)[c] THEN policy[Of(a)][c] ELSE Arg(a)[c]]
    <3>1. Arg(a) \in Body /\ Of(a) \in Policies
      BY <1>3, PlacedNow DEF UpdatePolicy, Placed
    <3>2. policy[Of(a)] \in Body
      BY <1>0, <1>3, <2>2, <3>1 DEF UpdatePolicy, Rows, TablesOK
    <3>3. z \in Body
      BY <3>1, <3>2, Mixed
    <3>4. /\ UNCHANGED <<user, role, member, raced>> /\ Becomes(a, Idle) /\ Named({Arg(a).role})
          /\ policy' = [policy EXCEPT ![Of(a)] = z]
      BY <1>3, <2>2 DEF UpdatePolicy
    <3>5. TablesOK' /\ Grown
      <4> HIDE DEF z
      <4> QED
        BY <1>0, <3>1, <3>3, <3>4 DEF TablesOK, Grown
    <3> QED
      BY <1>0, <3>4, <3>5, WriteType
  <2> QED
    BY <2>1, <2>2
<1>4. CASE DeletePolicy(a)
  <2>1. UNCHANGED <<user, role, member, raced, strayed>> /\ Becomes(a, Idle)
    BY <1>4 DEF DeletePolicy
  <2>2. TablesOK' /\ Grown
    BY <1>0, <1>4, <2>1 DEF TablesOK, Grown, DeletePolicy
  <2> QED
    BY <1>0, <2>1, <2>2, WriteType
<1> QED
  BY <1>1, <1>2, <1>3, <1>4 DEF PolicyStep

\* A set of more than one element has two.
LEMMA TwoOfMany ==
  ASSUME NEW S, Cardinality(S) > 1
  PROVE  \E x, y \in S : x # y
<1> SUFFICES ASSUME \A x, y \in S : x = y PROVE FALSE
  OBVIOUS
<1>1. CASE S = {}
  BY <1>1, FS_EmptySet
<1>2. CASE S # {}
  <2>1. PICK x \in S : S = {x}
    BY <1>2
  <2>2. Cardinality(S) = 1
    BY <2>1, FS_Singleton
  <2> QED
    BY <2>2
<1> QED
  BY <1>1, <1>2

\* The role that a start-up gives to the seed user, and the rows it adds.
StartRole(a) == IF Read(a).role = "none" THEN FreshRole ELSE Read(a).role
Defaults(p, q) ==
  policy' = [policy EXCEPT ![p] = Allow(AnyOne, "manage"), ![q] = Allow(AnyOne, "use")]

\* What a start-up that does not fail writes.
LEMMA StartWrites ==
  ASSUME TypeInv, NEW a \in Processes, StartUp(a), ~Ends(a)
  PROVE  /\ StartRole(a) \in Roles /\ (role[StartRole(a)] = "none" \/ StartRole(a) = Read(a).role)
         /\ UNCHANGED user \/ user' = [user EXCEPT ![Seed] =
              [password |-> "seeded", must |-> FALSE, deleted |-> FALSE]]
         /\ role' = [role EXCEPT ![StartRole(a)] = IF @ = "none" THEN "admin" ELSE @]
         /\ \/ UNCHANGED member /\ Named({})
            \/ member' = member \union {<<Seed, StartRole(a)>>} /\ Named({StartRole(a)})
         /\ \/ UNCHANGED policy
            \/ \E p, q \in Policies : policy[p] = None /\ policy[q] = None /\ Defaults(p, q)
         /\ UNCHANGED raced /\ Becomes(a, Idle)
<1>1. StartRole(a) \in Roles /\ (role[StartRole(a)] = "none" \/ StartRole(a) = Read(a).role)
  <2>1. Found(request[a], user)
    BY PlacedNow DEF StartUp, Placed, Is
  <2> QED
    BY <2>1, Fresh DEF StartRole, StartUp, Is, Read, Found
<1>2. /\ UNCHANGED user \/ user' = [user EXCEPT ![Seed] =
           [password |-> "seeded", must |-> FALSE, deleted |-> FALSE]]
      /\ role' = [role EXCEPT ![StartRole(a)] = IF @ = "none" THEN "admin" ELSE @]
      /\ UNCHANGED raced /\ Becomes(a, Idle)
  BY DEF StartUp, StartRole
<1>3. \/ UNCHANGED member /\ Named({})
      \/ member' = member \union {<<Seed, StartRole(a)>>} /\ Named({StartRole(a)})
  BY DEF StartUp, StartRole
<1>4. CASE Read(a).rows
  <2>1. UNCHANGED policy
    BY <1>4 DEF StartUp
  <2> QED
    BY <1>1, <1>2, <1>3, <2>1
<1>5. CASE ~Read(a).rows
  <2> DEFINE free == {p \in Policies : policy[p] = None}
             q == CHOOSE x \in Policies \ {FreshPolicy} : policy[x] = None
  <2>1. Cardinality(free) > 1
    BY <1>5 DEF StartUp
  <2>2. PICK x, y \in free : x # y
    BY <2>1, TwoOfMany
  <2>3. FreshPolicy \in Policies /\ policy[FreshPolicy] = None
    BY <2>2 DEF FreshPolicy
  <2>4. q \in Policies /\ policy[q] = None
    BY <2>2
  <2>5. policy' = [policy EXCEPT ![FreshPolicy] = Allow(AnyOne, "manage"), ![q] = Allow(AnyOne, "use")]
    BY <1>5 DEF StartUp
  <2> QED
    BY <1>1, <1>2, <1>3, <2>3, <2>4, <2>5 DEF Defaults
<1> QED
  BY <1>4, <1>5

LEMMA StartType ==
  ASSUME TypeInv, NEW a \in Processes, StartStep(a)
  PROVE  StepOK(a)
<1>0. TablesOK /\ raced \subseteq Users
  BY DEF TypeInv, CountsOK
<1>1. CASE LookForDefaults(a) \/ Ends(a)
  BY <1>1, LookType, EndsType
<1>2. CASE StartUp(a) /\ ~Ends(a)
  <2> DEFINE row == [password |-> "seeded", must |-> FALSE, deleted |-> FALSE]
  <2>1. row \in UserRow
    BY DEF UserRow
  <2>2. user' \in [Users -> UserRow \union {None}] /\ \A u \in Users : user[u] # None => user'[u] # None
    <3> HIDE DEF row
    <3>1. UNCHANGED user \/ user' = [user EXCEPT ![Seed] = row]
      BY <1>2, StartWrites DEF row
    <3> QED
      BY <1>0, <2>1, <3>1, AccessAssumption DEF TablesOK
  <2>3. role' \in [Roles -> RoleNames \union {"none", "gone"}]
    BY <1>0, <1>2, StartWrites DEF TablesOK, RoleNames
  <2>4. \A r \in Roles : role[r] # "none" => role'[r] # "none"
    BY <1>0, <1>2, StartWrites DEF TablesOK
  <2>5. member' \subseteq Users \X Roles
    <3>1. StartRole(a) \in Roles
      BY <1>2, StartWrites
    <3>2. UNCHANGED member \/ member' = member \union {<<Seed, StartRole(a)>>}
      BY <1>2, StartWrites
    <3> QED
      BY <1>0, <3>1, <3>2, AccessAssumption DEF TablesOK
  <2>6. policy' \in [Policies -> Body \union {None, Gone}]
    <3>1. Allow(AnyOne, "manage") \in Body /\ Allow(AnyOne, "use") \in Body
      BY AllowType DEF Actions
    <3> QED
      BY <1>0, <1>2, <3>1, StartWrites DEF TablesOK, Defaults
  <2>7. raced' \subseteq Users /\ Becomes(a, Idle) /\ \E rs : Named(rs)
    BY <1>0, <1>2, StartWrites
  <2> QED
    BY <2>2, <2>3, <2>4, <2>5, <2>6, <2>7, WriteType DEF TablesOK, Grown
<1> QED
  BY <1>1, <1>2 DEF StartStep

LEMMA AskType ==
  ASSUME TypeInv, NEW a \in Processes, Ask(a)
  PROVE  StepOK(a) /\ asked' \in 0 .. MaxRequests
<1>0. TablesOK
  BY DEF TypeInv
<1>1. PICK u \in {v \in Users : user[v] # None}, want \in Wants :
        /\ want[1] \in {"create policy", "update policy"} => want[3].role \in Known \union {AnyOne}
        /\ Becomes(a, [Idle EXCEPT !.pc = IF want[1] \in Unguarded THEN "look" ELSE "roles",
             !.kind = want[1], !.by = u, !.of = want[2], !.arg = want[3]])
  BY DEF Ask
<1> DEFINE q == [Idle EXCEPT !.pc = IF want[1] \in Unguarded THEN "look" ELSE "roles",
             !.kind = want[1], !.by = u, !.of = want[2], !.arg = want[3]]
<1>2. request'[a] = q
  BY <1>1, BecomesThat DEF TypeInv
<1>3. /\ DOMAIN q = Fields /\ q.pc \in {"look", "roles"} /\ q.kind = want[1]
      /\ q.by = u /\ q.of = want[2] /\ q.arg = want[3] /\ q.verdict = "none"
  BY DEF Idle, Fields
<1>4. /\ want[1] \in {"create user", "set roles"} => want[2] \in Users /\ want[3] \subseteq Roles
      /\ want[1] \in {"set password", "delete user"} => want[2] \in Users
      /\ want[1] \in {"rename role", "delete role", "add member", "remove member"} =>
           want[2] \in Known
      /\ want[1] \in {"add member", "remove member"} => want[3] \in Users
      /\ want[1] \in {"create policy", "update policy"} => want[3] \in Bodies
      /\ want[1] \in {"update policy", "delete policy"} => want[2] \in Policies
  BY DEF Wants, Known
<1>5. RequestOK(q, user, role)
  <2> HIDE DEF q
  <2> QED
    BY <1>3, <1>4, AccessAssumption DEF RequestOK, Placed, Known
<1>6. UNCHANGED <<tables, raced, strayed>>
  BY DEF Ask
<1>7. asked' \in 0 .. MaxRequests
  <2>1. asked \in 0 .. MaxRequests /\ MaxRequests \in Nat
    BY AccessAssumption DEF TypeInv, CountsOK
  <2>2. asked < MaxRequests /\ asked' = asked + 1
    BY DEF Ask
  <2> QED
    BY <2>1, <2>2
<1> QED
  BY <1>2, <1>5, <1>6, <1>7, TablesStand DEF StepOK, tables

\* Every step of a handler is that of a request under way, and leaves the others.
LEMMA HandleType ==
  ASSUME TypeInv, NEW a \in Processes, Handle(a)
  PROVE  StepOK(a) /\ UNCHANGED asked
BY GuardType, UserType, RoleType, PolicyType, StartType DEF Handle

LEMMA OneBecomes ==
  ASSUME NEW a \in Processes, Ask(a) \/ Handle(a)
  PROVE  \E q : Becomes(a, q)
<1> USE DEF Ends, Reads, Rewrite
<1>1. CASE Ask(a)
  BY <1>1 DEF Ask
<1>2. CASE Guard(a)
  BY <1>2 DEF Guard, ReadRoles, Judge, Denied
<1>3. CASE UserStep(a)
  BY <1>3 DEF UserStep, LookForNoUser, CreateUser, LookForUser, SetRoles, SetPassword,
    LookForSelf, ChangePassword, DeleteUser
<1>4. CASE RoleStep(a)
  <2>1. CASE LookForRole(a)
    BY <2>1 DEF LookForRole, Is
  <2> QED
    BY <1>4, <2>1 DEF RoleStep, CreateRole, LookForName, UseTemplate, RenameRole, DeleteRole,
      AddMember, RemoveMember
<1>5. CASE PolicyStep(a)
  BY <1>5 DEF PolicyStep, CreatePolicy, LookForPolicy, UpdatePolicy, DeletePolicy
<1>6. CASE StartStep(a)
  BY <1>6 DEF StartStep, LookForDefaults, StartUp
<1> QED
  BY <1>1, <1>2, <1>3, <1>4, <1>5, <1>6 DEF Handle

LEMMA OthersStand ==
  ASSUME TypeInv, NEW a \in Processes, Ask(a) \/ Handle(a)
  PROVE  /\ DOMAIN request' = Processes
         /\ \A b \in Processes : b # a => request'[b] = request[b]
BY OneBecomes, BecomesThat DEF TypeInv

LEMMA GhostType ==
  ASSUME TypeInv, Remember
  PROVE  GhostsOK'
<1> SUFFICES ASSUME NEW a \in Processes
             PROVE  seen'[a] \subseteq BOOLEAN /\ moved'[a] \subseteq {"roles", "policies"}
  BY DEF GhostsOK
<1>1. seen[a] \subseteq BOOLEAN /\ moved[a] \subseteq {"roles", "policies"}
  BY DEF TypeInv, GhostsOK
<1>2. Entitled(request'[a].by, member', policy') \in BOOLEAN
  BY DEF Entitled
<1>3. seen'[a] \subseteq BOOLEAN
  <2>1. seen'[a] \in {{}, seen[a], seen[a] \union {Entitled(request'[a].by, member', policy')}}
    BY DEF Remember
  <2> QED
    BY <1>1, <1>2, <2>1
<1>4. moved'[a] \subseteq {"roles", "policies"}
  BY <1>1 DEF Remember
<1> QED
  BY <1>3, <1>4

LEMMA TypeStep == TypeInv /\ [Next]_vars => TypeInv'
<1> SUFFICES ASSUME TypeInv, [Next]_vars PROVE TypeInv'
  OBVIOUS
<1>1. CASE UNCHANGED vars
  BY <1>1 DEF TypeInv, vars, tables, TablesOK, RequestsOK, CountsOK, GhostsOK
<1>2. CASE Next
  <2>1. PICK a \in Processes : Ask(a) \/ Handle(a)
    BY <1>2 DEF Next
  <2>2. StepOK(a) /\ asked' \in 0 .. MaxRequests
    BY <2>1, AskType, HandleType DEF TypeInv, CountsOK
  <2>3. ASSUME NEW b \in Processes PROVE RequestOK(request'[b], user', role')
    <3>1. CASE b = a
      BY <2>2, <3>1 DEF StepOK
    <3>2. CASE b # a
      <4>1. request'[b] = request[b] /\ RequestOK(request[b], user, role)
        BY <2>1, <3>2, OthersStand DEF TypeInv, RequestsOK
      <4> QED
        BY <2>2, <4>1 DEF RequestOK, Placed, Found, StepOK, Grown
    <3> QED
      BY <3>1, <3>2
  <2>4. RequestsOK'
    BY <2>1, <2>3, OthersStand DEF RequestsOK
  <2>5. GhostsOK'
    BY <1>2, GhostType DEF Next
  <2> QED
    BY <2>2, <2>4, <2>5 DEF TypeInv, StepOK, CountsOK
<1> QED
  BY <1>1, <1>2

\* There are keys for the first two roles.
LEMMA TwoKeys == Keys(2, Roles) \in [1 .. 2 -> Roles]
<1>1. PICK r, q \in Roles : r # q
  BY AccessAssumption
<1> DEFINE s == [i \in 1 .. 2 |-> IF i = 1 THEN r ELSE q]
<1>2. s \in [1 .. 2 -> Roles]
  BY <1>1
<1>3. {s[i] : i \in 1 .. 2} = {r} \union {q}
  <2>1. s[1] = r /\ s[2] = q /\ \A i \in 1 .. 2 : i = 1 \/ i = 2
    OBVIOUS
  <2> HIDE DEF s
  <2>2. 1 \in 1 .. 2 /\ 2 \in 1 .. 2
    OBVIOUS
  <2>3. \A x : x \in {s[i] : i \in 1 .. 2} <=> x = r \/ x = q
    BY <2>1, <2>2
  <2> QED
    BY <2>3
<1>4. Cardinality({r} \union {q}) = 2
  <2>1. IsFiniteSet({r}) /\ Cardinality({r}) = 1 /\ q \notin {r}
    BY <1>1, FS_Singleton
  <2>2. Cardinality({r} \union {q}) = Cardinality({r}) + 1
    BY <2>1, FS_AddElement
  <2> QED
    BY <2>1, <2>2
<1>5. \E t \in [1 .. 2 -> Roles] : Cardinality({t[i] : i \in 1 .. 2}) = 2
  <2> HIDE DEF s
  <2> QED
    BY <1>2, <1>3, <1>4
<1> QED
  BY <1>5 DEF Keys

\* What Init says of the tables, without how it says it.
LEMMA InitTables ==
  ASSUME Init
  PROVE  /\ TablesOK
         /\ \A r \in Roles : role[r] # "gone"
         /\ \A u \in Users : user[u] # None /\ user[u].password = "given" => user[u].must
<1> DEFINE r == Keys(2, Roles)
           p == Keys(3, Policies)
           seeded == [password |-> "seeded", must |-> FALSE, deleted |-> FALSE]
           given == [password |-> "given", must |-> TRUE, deleted |-> FALSE]
<1>1. r[1] \in Roles /\ r[2] \in Roles
  BY TwoKeys
<1>2. PICK u \in Users \ {Seed}, made \in BOOLEAN, kept \in BOOLEAN, first \in RoleNames,
           name \in {"none", "other"}, in \in SUBSET (Users \ {Seed}), b \in Bodies \union {None} :
        /\ user = [v \in Users |-> IF v = Seed THEN seeded
                     ELSE IF v = u /\ made THEN given ELSE None]
        /\ kept => first = "admin"
        /\ role = [x \in Roles |-> IF x = r[1] THEN first ELSE IF x = r[2] THEN name ELSE "none"]
        /\ in \subseteq {v \in Users : user[v] # None} /\ (name = "none" => in = {})
        /\ member = {<<Seed, r[1]>>} \union (in \X {r[2]})
        /\ b # None => b.role \in {AnyOne} \union Known
        /\ policy = [q \in Policies |->
             CASE q = p[1] -> IF kept THEN Allow(AnyOne, "manage") ELSE Gone
               [] q = p[2] -> IF kept THEN Allow(AnyOne, "use") ELSE Gone
               [] q = p[3] -> b
               [] OTHER -> None]
  BY Zenon DEF Init
<1>3. seeded \in UserRow /\ given \in UserRow
  BY DEF UserRow
<1>4. user \in [Users -> UserRow \union {None}]
  <2> HIDE DEF seeded, given
  <2> QED
    BY <1>2, <1>3
<1>5. role \in [Roles -> RoleNames \union {"none", "gone"}] /\ \A x \in Roles : role[x] # "gone"
  <2> HIDE DEF r
  <2> QED
    BY <1>2 DEF RoleNames
<1>6. member \subseteq Users \X Roles
  <2> HIDE DEF r
  <2> QED
    BY <1>1, <1>2, AccessAssumption
<1>7. policy \in [Policies -> Body \union {None, Gone}]
  <2>1. Allow(AnyOne, "manage") \in Body /\ Allow(AnyOne, "use") \in Body
    BY AllowType DEF Actions
  <2>2. b \in Body \union {None}
    BY AccessAssumption
  <2> HIDE DEF p
  <2> QED
    BY <1>2, <2>1, <2>2
<1>8. \A v \in Users : user[v] # None /\ user[v].password = "given" => user[v].must
  BY <1>2
<1> QED
  BY <1>4, <1>5, <1>6, <1>7, <1>8 DEF TablesOK

LEMMA InitType == Init => TypeInv
<1> SUFFICES ASSUME Init PROVE TypeInv
  OBVIOUS
<1>1. RequestsOK
  BY IdleOK DEF Init, RequestsOK
<1>2. CountsOK
  BY AccessAssumption DEF Init, CountsOK
<1>3. GhostsOK
  BY DEF Init, GhostsOK
<1> QED
  BY <1>1, <1>2, <1>3, InitTables DEF TypeInv

\* Every reachable state is well typed.
THEOREM TypeCorrect == Spec => []TypeOK
<1>1. Spec => []TypeInv
  BY InitType, TypeStep, PTL DEF Spec
<1>2. TypeInv => TypeOK
  BY DEF TypeInv, TypeOK, TablesOK, RequestsOK, RequestOK, CountsOK, GhostsOK
<1> QED
  BY <1>1, <1>2, PTL

-----------------------------------------------------------------------------
(* The engine *)

\* With the roles a user has, the rows the engine takes and the way it weighs
\* them say what its documents say.
LEMMA EngineIsRight ==
  ASSUME TypeInv, NEW u \in Users
  PROVE  IsAllowed(RowsFor(u, RoleIds(u)), "manage", "*") <=> Entitled(u, member, policy)
<1> DEFINE rows == RowsFor(u, RoleIds(u))
           says(effect) == \E p \in Policies :
             /\ policy[p] \notin {None, Gone}
             /\ policy[p].effect = effect
             /\ policy[p].action = "*" \/ policy[p].action = "manage"
             /\ policy[p].resource = "*"
             /\ policy[p].user = AnyOne \/ policy[p].user = u
             /\ policy[p].role = AnyOne \/ <<u, policy[p].role>> \in member
           hits(effect) == \E row \in rows : Matches(row, "manage", "*") /\ row.effect = effect
<1>1. ASSUME NEW effect PROVE hits(effect) <=> says(effect)
  <2>1. ASSUME NEW p \in Rows
        PROVE  policy[p].role \in RoleIds(u) \union {AnyOne}
                 <=> (policy[p].role = AnyOne \/ <<u, policy[p].role>> \in member)
    BY DEF TypeInv, TablesOK, RoleIds
  <2>2. hits(effect) <=> \E p \in Rows :
          /\ policy[p].user \in {AnyOne, u} /\ policy[p].role \in RoleIds(u) \union {AnyOne}
          /\ Matches(policy[p], "manage", "*") /\ policy[p].effect = effect
    BY DEF RowsFor
  <2> QED
    BY <2>1, <2>2 DEF Rows, Matches
<1>2. IsAllowed(rows, "manage", "*") <=> ~hits("DENY") /\ hits("ALLOW")
  <2> HIDE DEF rows
  <2> QED
    BY DEF IsAllowed
<1>3. Entitled(u, member, policy) <=> says("ALLOW") /\ ~says("DENY")
  BY DEF Entitled
<1> QED
  BY <1>1, <1>2, <1>3

\* Where no row names every action and none has an odd effect, the menu lists
\* an action if and only if the engine allows it.
LEMMA MenuIsRight == TypeInv => MenuAgrees
<1> SUFFICES ASSUME TypeInv, NEW u \in Users,
                    \A row \in RowsFor(u, RoleIds(u)) : row.action # "*" /\ row.effect # "other",
                    NEW x \in Actions
             PROVE  x \in ListActions(RowsFor(u, RoleIds(u)))
                      <=> IsAllowed(RowsFor(u, RoleIds(u)), x, "*")
  BY DEF MenuAgrees
<1> DEFINE rows == RowsFor(u, RoleIds(u))
           has(effect) == \E row \in rows : row.resource = "*" /\ row.action = x /\ row.effect = effect
<1>1. ASSUME NEW row \in rows PROVE row.effect \in {"ALLOW", "DENY"} /\ row.action # "*"
  <2>1. row \in Body
    BY DEF RowsFor, Rows, TypeInv, TablesOK
  <2> QED
    BY <2>1 DEF Body
<1> HIDE DEF rows
<1>2. x \in ListActions(rows) <=> has("ALLOW") /\ ~has("DENY")
  BY <1>1 DEF ListActions
<1>3. IsAllowed(rows, x, "*") <=> has("ALLOW") /\ ~has("DENY")
  BY <1>1 DEF IsAllowed, Matches
<1> QED
  BY <1>2, <1>3 DEF rows

\* The actions that the pages offer are those that the guard allows, as long
\* as no policy names every action and none has an odd effect.
THEOREM MenuFollowsGuard == Spec => []MenuAgrees
BY InitType, TypeStep, MenuIsRight, PTL DEF Spec

-----------------------------------------------------------------------------
(* The guard *)

\* A handler past its guard goes on to its commit with what it read, or is over.
LEMMA HandlerGoesOn ==
  ASSUME NEW a \in Processes, Handle(a)
  PROVE  \/ ReadRoles(a) \/ Judge(a) \/ Becomes(a, Idle)
         \/ request[a].pc = "look" /\ \E read : Reads(a, read)
<1> USE DEF Ends, Rewrite, Is
<1>1. CASE Guard(a)
  BY <1>1 DEF Guard, Denied
<1>2. CASE UserStep(a)
  BY <1>2 DEF UserStep, LookForNoUser, CreateUser, LookForUser, SetRoles, SetPassword,
    LookForSelf, ChangePassword, DeleteUser
<1>3. CASE RoleStep(a)
  <2>1. CASE LookForRole(a)
    BY <2>1 DEF LookForRole
  <2> QED
    BY <1>3, <2>1 DEF RoleStep, CreateRole, LookForName, UseTemplate, RenameRole, DeleteRole,
      AddMember, RemoveMember
<1>4. CASE PolicyStep(a)
  BY <1>4 DEF PolicyStep, CreatePolicy, LookForPolicy, UpdatePolicy, DeletePolicy
<1>5. CASE StartStep(a)
  BY <1>5 DEF StartStep, LookForDefaults, StartUp
<1> QED
  BY <1>1, <1>2, <1>3, <1>4, <1>5 DEF Handle

\* What a step notes for a request whose guard has not answered.
LEMMA Notes ==
  ASSUME Remember, NEW a \in Processes
  PROVE  /\ request'[a].pc \in {"roles", "policies"} =>
              seen'[a] = seen[a] \union {Entitled(request'[a].by, member', policy')}
         /\ request'[a].pc \in {"look", "commit", "denied"} => seen'[a] = seen[a]
         /\ request'[a].pc # "idle" =>
              moved[a] \subseteq moved'[a]
         /\ request'[a].pc \in {"look", "commit", "denied"} => moved'[a] = moved[a]
         /\ request'[a].pc = "policies" /\ request[a].pc = "policies" =>
              /\ "roles" \notin moved'[a] =>
                   {r \in Roles : <<request[a].by, r>> \in member'} = RoleIds(request[a].by)
              /\ "policies" \notin moved'[a] => policy' = policy
BY DEF Remember

\* Of a request that does not move.
LEMMA GuardOfOthers ==
  ASSUME TypeInv, GuardInv, Remember, NEW b \in Processes,
         NEW q, request[b] = q, request'[b] = q
  PROVE  GuardOf(b, q)'
<1>0. q.pc \in {"idle", "roles", "policies", "look", "commit", "denied"}
  BY DEF TypeInv, RequestsOK, RequestOK
<1>1. GuardOf(b, q)
  BY DEF GuardInv
<1>2. q.pc \in {"roles", "policies"} => Entitled(q.by, member', policy') \in seen'[b]
  BY Notes
<1>3. ASSUME q.pc = "policies"
      PROVE  /\ "roles" \in moved'[b] \/ q.read = RoleIds(q.by)'
             /\ "policies" \in moved'[b] \/ IsAllowed(RowsFor(q.by, q.read)', "manage", "*") \in seen'[b]
  <2>1. /\ "roles" \in moved[b] \/ q.read = RoleIds(q.by)
        /\ "policies" \in moved[b] \/ IsAllowed(RowsFor(q.by, q.read), "manage", "*") \in seen[b]
    BY <1>1, <1>3 DEF GuardOf
  <2>2. moved[b] \subseteq moved'[b] /\ seen[b] \subseteq seen'[b]
    BY <1>3, Notes
  <2>3. "roles" \notin moved'[b] => q.read = RoleIds(q.by)'
    BY <1>3, <2>1, <2>2, Notes DEF RoleIds
  <2>4. ASSUME "policies" \notin moved'[b]
        PROVE  IsAllowed(RowsFor(q.by, q.read)', "manage", "*") \in seen'[b]
    <3>1. policy' = policy
      BY <1>3, <2>4, Notes
    <3>2. RowsFor(q.by, q.read)' = RowsFor(q.by, q.read)
      BY <3>1 DEF RowsFor, Rows
    <3> QED
      BY <2>1, <2>2, <2>4, <3>2
  <2> QED
    BY <2>3, <2>4
<1>4. ASSUME q.verdict # "none", moved'[b] # {"roles", "policies"}
      PROVE  (q.verdict = "allowed") \in seen'[b]
  <2>1. q.pc \in {"look", "commit", "denied"}
    BY <1>0, <1>1, <1>4 DEF GuardOf
  <2>2. seen'[b] = seen[b] /\ moved'[b] = moved[b]
    BY <2>1, Notes
  <2> QED
    BY <1>1, <1>4, <2>2 DEF GuardOf
<1> QED
  BY <1>1, <1>2, <1>3, <1>4 DEF GuardOf

\* Of the request that moves.
LEMMA GuardOfMover ==
  ASSUME TypeInv, GuardInv, Remember, NEW a \in Processes, Ask(a) \/ Handle(a),
         NEW q, request'[a] = q
  PROVE  GuardOf(a, q)'
<1>0. TypeInv /\ RequestOK(request[a], user, role) /\ GuardOf(a, request[a])
  BY DEF TypeInv, RequestsOK, GuardInv
<1>1. CASE Becomes(a, Idle)
  <2>1. q.pc = "idle" /\ q.verdict = "none"
    BY <1>1, BecomesThat DEF TypeInv, Idle
  <2> QED
    BY <2>1 DEF GuardOf
<1>2. CASE Ask(a)
  <2>1. q.pc \in {"look", "roles"} /\ q.verdict = "none"
    <3>1. PICK u, want : Becomes(a, [Idle EXCEPT
            !.pc = IF want[1] \in Unguarded THEN "look" ELSE "roles",
            !.kind = want[1], !.by = u, !.of = want[2], !.arg = want[3]])
      BY <1>2 DEF Ask
    <3>2. q = [Idle EXCEPT !.pc = IF want[1] \in Unguarded THEN "look" ELSE "roles",
               !.kind = want[1], !.by = u, !.of = want[2], !.arg = want[3]]
      BY <3>1, BecomesThat DEF TypeInv
    <3> QED
      BY <3>2 DEF Idle
  <2>2. q.pc = "roles" => Entitled(q.by, member', policy') \in seen'[a]
    BY Notes
  <2> QED
    BY <2>1, <2>2 DEF GuardOf
<1>3. CASE ReadRoles(a)
  <2>1. q.pc = "policies" /\ q.by = request[a].by /\ q.read = RoleIds(request[a].by)
        /\ q.verdict = request[a].verdict
    <3>1. q = [request[a] EXCEPT !.pc = "policies", !.read = RoleIds(request[a].by)]
      BY <1>3, BecomesThat DEF ReadRoles, TypeInv
    <3> QED
      BY <1>0, <3>1 DEF RequestOK, Fields
  <2>2. q.verdict = "none" /\ request[a].by \in Users
    BY <1>0, <1>3, <2>1 DEF GuardOf, ReadRoles, RequestOK
  <2>3. UNCHANGED <<member, policy>>
    BY <1>3 DEF ReadRoles, tables
  <2>4. Entitled(q.by, member', policy') \in seen'[a]
    BY <2>1, Notes
  <2>5. q.read = RoleIds(q.by)'
    BY <2>1, <2>3 DEF RoleIds
  <2>6. IsAllowed(RowsFor(q.by, q.read)', "manage", "*") \in seen'[a]
    <3>1. RowsFor(q.by, q.read)' = RowsFor(q.by, RoleIds(q.by))
      BY <2>1, <2>3 DEF RowsFor, Rows
    <3>2. IsAllowed(RowsFor(q.by, RoleIds(q.by)), "manage", "*") = Entitled(q.by, member, policy)
      <4>1. IsAllowed(RowsFor(q.by, RoleIds(q.by)), "manage", "*") \in BOOLEAN
            /\ Entitled(q.by, member, policy) \in BOOLEAN
        BY DEF IsAllowed, Entitled
      <4> QED
        BY <2>1, <2>2, <4>1, EngineIsRight
    <3> QED
      BY <2>3, <2>4, <3>1, <3>2
  <2> QED
    BY <2>1, <2>2, <2>4, <2>5, <2>6 DEF GuardOf
<1>4. CASE Judge(a)
  <2> DEFINE allowed == IsAllowed(RowsFor(request[a].by, Read(a)), "manage", "*")
  <2>1. q.pc \in {"look", "denied"} /\ (q.verdict = "allowed") = allowed
    <3>1. allowed \in BOOLEAN
      BY DEF IsAllowed
    <3>2. Becomes(a, [request[a] EXCEPT !.verdict = IF allowed THEN "allowed" ELSE "denied",
            !.pc = IF allowed THEN "look" ELSE "denied", !.read = None])
      BY <1>4 DEF Judge
    <3>3. q = [request[a] EXCEPT !.verdict = IF allowed THEN "allowed" ELSE "denied",
               !.pc = IF allowed THEN "look" ELSE "denied", !.read = None]
      BY <3>2, BecomesThat DEF TypeInv
    <3> HIDE DEF allowed
    <3> QED
      BY <1>0, <3>1, <3>3 DEF RequestOK, Fields
  <2>2. seen'[a] = seen[a] /\ moved'[a] = moved[a]
    BY <2>1, Notes
  <2>3. request[a].pc = "policies" /\ request[a].by \in Users
    BY <1>0, <1>4 DEF Judge, RequestOK
  <2>4. moved[a] \subseteq {"roles", "policies"}
    BY DEF TypeInv, GhostsOK
  <2>5. CASE "policies" \notin moved[a]
    <3>1. allowed \in seen[a]
      BY <1>0, <2>3, <2>5 DEF GuardOf, Read
    <3> QED
      BY <2>1, <2>2, <3>1 DEF GuardOf
  <2>6. CASE "roles" \notin moved[a]
    <3>1. Read(a) = RoleIds(request[a].by) /\ Entitled(request[a].by, member, policy) \in seen[a]
      BY <1>0, <2>3, <2>6 DEF GuardOf, Read
    <3>2. allowed \in BOOLEAN /\ Entitled(request[a].by, member, policy) \in BOOLEAN
      BY DEF IsAllowed, Entitled
    <3>3. allowed = Entitled(request[a].by, member, policy)
      BY <2>3, <3>1, <3>2, EngineIsRight
    <3> QED
      BY <2>1, <2>2, <3>1, <3>3 DEF GuardOf
  <2>7. CASE {"roles", "policies"} \subseteq moved[a]
    <3>1. moved'[a] = {"roles", "policies"}
      BY <2>2, <2>4, <2>7
    <3> QED
      BY <2>1, <3>1 DEF GuardOf
  <2> QED
    BY <2>5, <2>6, <2>7
<1>5. CASE request[a].pc = "look" /\ \E read : Reads(a, read)
  <2>1. q.pc = "commit" /\ q.verdict = request[a].verdict
    <3>1. PICK read : Becomes(a, [request[a] EXCEPT !.pc = "commit", !.read = read])
      BY <1>5 DEF Reads
    <3>2. q = [request[a] EXCEPT !.pc = "commit", !.read = read]
      BY <3>1, BecomesThat DEF TypeInv
    <3> QED
      BY <1>0, <3>2 DEF RequestOK, Fields
  <2>2. seen'[a] = seen[a] /\ moved'[a] = moved[a]
    BY <2>1, Notes
  <2> QED
    BY <1>0, <2>1, <2>2 DEF GuardOf
<1> QED
  BY <1>1, <1>2, <1>3, <1>4, <1>5, HandlerGoesOn

\* Whatever the requests and their order, what the guard said was right at
\* some moment since the request came, unless both of what it read had changed.
THEOREM VerdictAlwaysTrue == Spec => []VerdictWasTrue
<1>1. Init => GuardInv
  <2> SUFFICES ASSUME Init, NEW a \in Processes PROVE GuardOf(a, request[a])
    BY DEF GuardInv
  <2>1. request[a].pc = "idle" /\ request[a].verdict = "none"
    BY DEF Init, Idle
  <2> QED
    BY <2>1 DEF GuardOf
<1>2. TypeInv /\ GuardInv /\ [Next]_vars => GuardInv'
  <2> SUFFICES ASSUME TypeInv, GuardInv, [Next]_vars PROVE GuardInv'
    OBVIOUS
  <2>1. CASE UNCHANGED vars
    BY <2>1 DEF GuardInv, GuardOf, vars, tables, RoleIds, RowsFor, Rows
  <2>2. CASE Next
    <3>1. PICK a \in Processes : Ask(a) \/ Handle(a)
      BY <2>2 DEF Next
    <3>2. Remember
      BY <2>2 DEF Next
    <3> SUFFICES ASSUME NEW b \in Processes PROVE GuardOf(b, request[b])'
      BY DEF GuardInv
    <3>3. PICK q : q = request'[b]
      OBVIOUS
    <3>4. GuardOf(b, q)'
      BY <3>1, <3>2, <3>3, GuardOfMover, GuardOfOthers, OthersStand
    <3> QED
      BY <3>3, <3>4 DEF GuardOf, RoleIds, RowsFor, Rows
  <2> QED
    BY <2>1, <2>2
<1>3. GuardInv => VerdictWasTrue
  BY DEF GuardInv, GuardOf, VerdictWasTrue
<1> QED
  BY <1>1, <1>2, <1>3, InitType, TypeStep, PTL DEF Spec

-----------------------------------------------------------------------------
(* Passwords *)

\* Only these write a row of the table of users.
LEMMA UsersStand ==
  ASSUME NEW a \in Processes, Ask(a) \/ Handle(a),
         ~CreateUser(a), ~SetPassword(a), ~ChangePassword(a), ~DeleteUser(a), ~StartUp(a)
  PROVE  UNCHANGED <<user, raced>>
<1> USE DEF Ends, Reads, tables
<1>1. CASE Ask(a)
  BY <1>1 DEF Ask
<1>2. CASE Guard(a)
  BY <1>2 DEF Guard, ReadRoles, Judge, Denied
<1>3. CASE UserStep(a)
  BY <1>3 DEF UserStep, LookForNoUser, LookForUser, SetRoles, LookForSelf
<1>4. CASE RoleStep(a)
  <2>1. CASE LookForRole(a)
    BY <2>1 DEF LookForRole, Is
  <2> QED
    BY <1>4, <2>1 DEF RoleStep, CreateRole, LookForName, UseTemplate, RenameRole, DeleteRole,
      AddMember, RemoveMember
<1>5. CASE PolicyStep(a)
  BY <1>5 DEF PolicyStep, CreatePolicy, LookForPolicy, UpdatePolicy, DeletePolicy
<1>6. CASE StartStep(a)
  BY <1>6 DEF StartStep, LookForDefaults
<1> QED
  BY <1>1, <1>2, <1>3, <1>4, <1>5, <1>6 DEF Handle

\* A row that says the password was given says that it is to be changed.
Marked(row) == row.password = "given" => row.must

\* Whoever writes a password over the row he read marks it as he should.
LEMMA RewriteMarks ==
  ASSUME TypeInv, PasswordIsTheirs, NEW a \in Processes, NEW u \in Users,
         NEW password, NEW must \in BOOLEAN, Rewrite(a, u, password, must),
         user[u] # None, password = "given" => must
  PROVE  PasswordIsTheirs'
<1>0. user \in [Users -> UserRow \union {None}] /\ user[u] \in UserRow
  BY DEF TypeInv, TablesOK
<1>1. raced \subseteq raced' /\ \A v \in Users : v # u => user'[v] = user[v]
  BY <1>0 DEF Rewrite
<1>2. CASE user[u] # Read(a)
  BY <1>1, <1>2 DEF Rewrite, PasswordIsTheirs
<1>3. CASE user[u] = Read(a)
  <2>1. user'[u].password = password /\ user'[u].must = must
    <3>1. CASE user[u].must = must
      BY <1>0, <1>3, <3>1 DEF Rewrite, UserRow
    <3>2. CASE user[u].must # must
      BY <1>0, <1>3, <3>2 DEF Rewrite, UserRow
    <3> QED
      BY <3>1, <3>2
  <2> QED
    BY <1>1, <2>1 DEF PasswordIsTheirs
<1> QED
  BY <1>2, <1>3

\* A password that an administrator set is to be changed at the next sign-in,
\* whatever the order of creations, resets and changes, except where a write
\* met a row that had changed since it was read.
THEOREM PasswordAlwaysTheirs == Spec => []PasswordIsTheirs
<1>1. Init => PasswordIsTheirs
  BY InitTables DEF PasswordIsTheirs
<1>2. TypeInv /\ PasswordIsTheirs /\ [Next]_vars => PasswordIsTheirs'
  <2> SUFFICES ASSUME TypeInv, PasswordIsTheirs, [Next]_vars PROVE PasswordIsTheirs'
    OBVIOUS
  <2>0. user \in [Users -> UserRow \union {None}]
    BY DEF TypeInv, TablesOK
  <2>1. CASE UNCHANGED vars
    BY <2>1 DEF vars, tables, PasswordIsTheirs
  <2>2. CASE Next
    <3>1. PICK a \in Processes : Ask(a) \/ Handle(a)
      BY <2>2 DEF Next
    <3>2. CASE UNCHANGED <<user, raced>>
      BY <3>2 DEF PasswordIsTheirs
    <3>3. ASSUME NEW u \in Users, NEW row, Marked(row), user' = [user EXCEPT ![u] = row], UNCHANGED raced
          PROVE  PasswordIsTheirs'
      BY <2>0, <3>3 DEF PasswordIsTheirs, Marked
    <3>4. CASE CreateUser(a)
      <4>1. CASE Ends(a)
        BY <3>2, <4>1 DEF Ends, tables
      <4>2. CASE ~Ends(a)
        <5>1. PICK given \in BOOLEAN : user' = [user EXCEPT ![Of(a)] =
                [password |-> IF given THEN "given" ELSE "none", must |-> given, deleted |-> FALSE]]
          BY <3>4, <4>2 DEF CreateUser
        <5>2. Marked([password |-> IF given THEN "given" ELSE "none", must |-> given, deleted |-> FALSE])
          BY DEF Marked
        <5>3. Of(a) \in Users /\ UNCHANGED raced
          BY <3>4, <4>2, PlacedNow DEF CreateUser, Placed, Of, Is
        <5> QED
          BY <3>3, <5>1, <5>2, <5>3
      <4> QED
        BY <4>1, <4>2
    <3>5. CASE SetPassword(a)
      BY <3>5, RewriteMarks, PlacedNow DEF SetPassword, Placed, Found, Is, Of
    <3>6. CASE ChangePassword(a)
      <4>1. request[a].by \in Users /\ user[request[a].by] # None
        BY <3>6, PlacedNow DEF ChangePassword, Placed, Is
      <4>2. Rewrite(a, request[a].by, "theirs", FALSE) /\ ("theirs" = "given" => FALSE)
        BY <3>6 DEF ChangePassword
      <4> QED
        BY <4>1, <4>2, RewriteMarks
    <3>7. CASE DeleteUser(a)
      <4>1. Of(a) \in Users /\ user[Of(a)] # None
        BY <3>7, PlacedNow DEF DeleteUser, Placed, Found, Is, Of
      <4>2. user[Of(a)] \in UserRow
        BY <2>0, <4>1
      <4>3. user' = [user EXCEPT ![Of(a)] = [user[Of(a)] EXCEPT !.deleted = TRUE]] /\ UNCHANGED raced
        BY <3>7 DEF DeleteUser
      <4>4. /\ \A v \in Users : v # Of(a) => user'[v] = user[v]
            /\ user'[Of(a)].password = user[Of(a)].password /\ user'[Of(a)].must = user[Of(a)].must
        BY <2>0, <4>1, <4>2, <4>3 DEF UserRow
      <4> QED
        BY <4>1, <4>3, <4>4 DEF PasswordIsTheirs
    <3>8. CASE StartUp(a)
      <4>1. CASE Ends(a)
        BY <3>2, <4>1 DEF Ends, tables
      <4>2. CASE ~Ends(a)
        <5>1. /\ UNCHANGED raced
              /\ UNCHANGED user \/ user' = [user EXCEPT ![Seed] =
                   [password |-> "seeded", must |-> FALSE, deleted |-> FALSE]]
          BY <3>8, <4>2, StartWrites
        <5>2. Marked([password |-> "seeded", must |-> FALSE, deleted |-> FALSE])
          BY DEF Marked
        <5> QED
          BY <3>2, <3>3, <5>1, <5>2, AccessAssumption
      <4> QED
        BY <4>1, <4>2
    <3> QED
      BY <3>1, <3>2, <3>4, <3>5, <3>6, <3>7, <3>8, UsersStand
  <2> QED
    BY <2>1, <2>2
<1> QED
  BY <1>1, <1>2, InitType, TypeStep, PTL DEF Spec

-----------------------------------------------------------------------------
(* Roles that are gone *)

\* Nothing of a role that is gone, or is being deleted, is added unless the
\* step marks it as strayed.
Going(r) == role[r] = "gone" \/ Deleting(r)
NothingAdded ==
  /\ strayed \subseteq strayed'
  /\ \A r \in Roles : Going(r) /\ r \notin strayed' =>
       Members(r)' \subseteq Members(r) /\ Grants(r)' \subseteq Grants(r)

LEMMA StandingAdds ==
  ASSUME UNCHANGED <<member, policy, strayed>>
  PROVE  NothingAdded
BY DEF NothingAdded, Members, Grants, Rows

\* A write names the roles of what it adds.
LEMMA NamedAdds ==
  ASSUME NEW rs, Named(rs),
         \A r \in Roles : Going(r) /\ r \notin rs =>
           Members(r)' \subseteq Members(r) /\ Grants(r)' \subseteq Grants(r)
  PROVE  NothingAdded
BY DEF NothingAdded, Named, Going

\* A role that is going has a row.
LEMMA GoingIsKnown ==
  ASSUME TypeInv, NEW r \in Roles, Going(r)
  PROVE  role[r] # "none"
<1>1. CASE role[r] = "gone"
  BY <1>1
<1>2. CASE Deleting(r)
  <2>1. PICK a \in Processes : Is(a, "delete role", "commit") /\ Of(a) = r
    BY <1>2 DEF Deleting
  <2> QED
    BY <2>1, PlacedNow DEF Is, Of, Placed
<1> QED
  BY <1>1, <1>2 DEF Going

LEMMA UserAdds ==
  ASSUME TypeInv, NEW a \in Processes, UserStep(a)
  PROVE  NothingAdded
<1> USE DEF Ends, Reads, tables
<1>1. ASSUME UNCHANGED policy, Named(Arg(a)), member' = Synced(Of(a), Read(a), Arg(a))
      PROVE  NothingAdded
  BY <1>1, NamedAdds DEF Synced, Members, Grants, Rows
<1>2. CASE CreateUser(a)
  BY <1>1, <1>2, StandingAdds DEF CreateUser
<1>3. CASE SetRoles(a)
  BY <1>1, <1>3, StandingAdds DEF SetRoles
<1>4. CASE DeleteUser(a)
  BY <1>4 DEF DeleteUser, NothingAdded, Members, Grants, Rows
<1>5. CASE ~CreateUser(a) /\ ~SetRoles(a) /\ ~DeleteUser(a)
  BY <1>5, StandingAdds DEF UserStep, LookForNoUser, LookForUser, SetPassword, LookForSelf,
    ChangePassword, Rewrite
<1> QED
  BY <1>2, <1>3, <1>4, <1>5

LEMMA RoleAdds ==
  ASSUME TypeInv, NEW a \in Processes, RoleStep(a)
  PROVE  NothingAdded
<1> USE DEF Ends, Reads, tables
<1>0. policy \in [Policies -> Body \union {None, Gone}]
  BY DEF TypeInv, TablesOK
<1>1. CASE UseTemplate(a)
  <2>1. /\ FreshRole \in Roles /\ role[FreshRole] = "none" /\ FreshPolicy \in Policies
        /\ policy' = [policy EXCEPT ![FreshPolicy] = Allow(FreshRole, "manage")]
        /\ UNCHANGED <<member, strayed>>
    BY <1>1, Fresh DEF UseTemplate
  <2>2. Allow(FreshRole, "manage").role = FreshRole
    BY DEF Allow
  <2>3. ASSUME NEW r \in Roles, Going(r) PROVE Grants(r)' \subseteq Grants(r)
    BY <1>0, <2>1, <2>2, <2>3, GoingIsKnown DEF Grants, Rows
  <2> QED
    BY <2>1, <2>3 DEF NothingAdded, Members
<1>2. CASE DeleteRole(a)
  BY <1>2 DEF DeleteRole, NothingAdded, Members, Grants, Rows
<1>3. CASE AddMember(a)
  <2>1. CASE Ends(a)
    BY <2>1, StandingAdds
  <2>2. CASE ~Ends(a)
    <3>1. UNCHANGED policy /\ Named({Of(a)}) /\ member' = member \union {<<Arg(a), Of(a)>>}
      BY <1>3, <2>2 DEF AddMember
    <3>2. ASSUME NEW r \in Roles, r \notin {Of(a)}
          PROVE  Members(r)' \subseteq Members(r) /\ Grants(r)' \subseteq Grants(r)
      BY <3>1, <3>2 DEF Members, Grants, Rows
    <3> QED
      BY <3>1, <3>2, NamedAdds
  <2> QED
    BY <2>1, <2>2
<1>4. CASE RemoveMember(a)
  BY <1>4 DEF RemoveMember, NothingAdded, Members, Grants, Rows
<1>5. CASE LookForRole(a)
  BY <1>5, StandingAdds DEF LookForRole, Is
<1>6. CASE CreateRole(a) \/ LookForName(a) \/ RenameRole(a)
  BY <1>6, StandingAdds DEF CreateRole, LookForName, RenameRole
<1> QED
  BY <1>1, <1>2, <1>3, <1>4, <1>5, <1>6 DEF RoleStep

LEMMA PolicyAdds ==
  ASSUME TypeInv, NEW a \in Processes, PolicyStep(a)
  PROVE  NothingAdded
<1> USE DEF Ends, Reads, tables
<1>0. policy \in [Policies -> Body \union {None, Gone}]
  BY DEF TypeInv, TablesOK
<1>1. CASE CreatePolicy(a)
  <2>1. FreshPolicy \in Policies /\ policy' = [policy EXCEPT ![FreshPolicy] = Arg(a)]
        /\ UNCHANGED member /\ Named({Arg(a).role})
    BY <1>1, Fresh DEF CreatePolicy
  <2>2. ASSUME NEW r \in Roles, r # Arg(a).role
        PROVE  Members(r)' \subseteq Members(r) /\ Grants(r)' \subseteq Grants(r)
    BY <1>0, <2>1, <2>2 DEF Members, Grants, Rows
  <2> QED
    BY <2>1, <2>2, NamedAdds
<1>2. CASE LookForPolicy(a)
  BY <1>2, StandingAdds DEF LookForPolicy
<1>3. CASE UpdatePolicy(a)
  <2>1. CASE Ends(a)
    BY <2>1, StandingAdds
  <2>2. CASE ~Ends(a)
    <3> DEFINE z == [c \in DOMAIN Arg(a) |->
                       IF Arg(a)[c] = Read(a)[c] THEN policy[Of(a)][c] ELSE Arg(a)[c]]
    <3>1. Arg(a) \in Body /\ Of(a) \in Policies
      BY <1>3, PlacedNow DEF UpdatePolicy, Placed, Is, Arg, Of
    <3>2. Of(a) \in Rows /\ policy[Of(a)] \in Body
      BY <1>0, <1>3, <2>2, <3>1 DEF UpdatePolicy, Rows
    <3>3. z.role \in {Arg(a).role, policy[Of(a)].role}
      BY <3>1, <3>2, Mixed
    <3>4. policy' = [policy EXCEPT ![Of(a)] = z] /\ UNCHANGED member /\ Named({Arg(a).role})
      BY <1>3, <2>2 DEF UpdatePolicy
    <3>5. ASSUME NEW r \in Roles, r # Arg(a).role
          PROVE  Members(r)' \subseteq Members(r) /\ Grants(r)' \subseteq Grants(r)
      <4> HIDE DEF z
      <4> QED
        BY <1>0, <3>2, <3>3, <3>4, <3>5 DEF Members, Grants, Rows
    <3> QED
      BY <3>4, <3>5, NamedAdds
  <2> QED
    BY <2>1, <2>2
<1>4. CASE DeletePolicy(a)
  BY <1>0, <1>4 DEF DeletePolicy, NothingAdded, Members, Grants, Rows
<1> QED
  BY <1>1, <1>2, <1>3, <1>4 DEF PolicyStep

LEMMA StartAdds ==
  ASSUME TypeInv, NEW a \in Processes, StartStep(a)
  PROVE  NothingAdded
<1>0. policy \in [Policies -> Body \union {None, Gone}]
  BY DEF TypeInv, TablesOK
<1>1. CASE LookForDefaults(a) \/ Ends(a)
  BY <1>1, StandingAdds DEF LookForDefaults, Ends, Reads, tables
<1>2. CASE StartUp(a) /\ ~Ends(a)
  <2>1. PICK rs \in {{}, {StartRole(a)}} :
          /\ Named(rs)
          /\ \/ UNCHANGED member
             \/ member' = member \union {<<Seed, StartRole(a)>>} /\ rs = {StartRole(a)}
    <3>1. \/ UNCHANGED member /\ Named({})
          \/ member' = member \union {<<Seed, StartRole(a)>>} /\ Named({StartRole(a)})
      BY <1>2, StartWrites
    <3> QED
      BY <3>1
  <2>2. ASSUME NEW r \in Roles PROVE Grants(r)' \subseteq Grants(r)
    <3>1. CASE UNCHANGED policy
      BY <3>1 DEF Grants, Rows
    <3>2. ASSUME NEW p \in Policies, NEW q \in Policies, Defaults(p, q)
          PROVE  Grants(r)' \subseteq Grants(r)
      <4>1. \A x : Allow(AnyOne, x).role = AnyOne
        BY DEF Allow
      <4>2. r # AnyOne
        BY AccessAssumption
      <4> QED
        BY <1>0, <3>2, <4>1, <4>2 DEF Defaults, Grants, Rows
    <3> QED
      BY <1>2, <3>1, <3>2, StartWrites
  <2>3. ASSUME NEW r \in Roles, r \notin rs PROVE Members(r)' \subseteq Members(r)
    BY <2>1, <2>3 DEF Members
  <2> QED
    BY <2>1, <2>2, <2>3, NamedAdds
<1> QED
  BY <1>1, <1>2 DEF StartStep

LEMMA StepAdds ==
  ASSUME TypeInv, NEW a \in Processes, Ask(a) \/ Handle(a)
  PROVE  NothingAdded
<1>1. CASE Ask(a)
  BY <1>1, StandingAdds DEF Ask, tables
<1>2. CASE Guard(a)
  BY <1>2, StandingAdds DEF Guard, ReadRoles, Judge, Denied, Ends, tables
<1> QED
  BY <1>1, <1>2, UserAdds, RoleAdds, PolicyAdds, StartAdds DEF Handle

\* A role goes only by its deletion.
LEMMA OnlyDeleted ==
  ASSUME TypeInv, NEW a \in Processes, Ask(a) \/ Handle(a), NEW r \in Roles,
         role[r] # "gone", role'[r] = "gone"
  PROVE  DeleteRole(a) /\ Of(a) = r
<1> USE DEF Ends, Reads, tables
<1>0. role \in [Roles -> RoleNames \union {"none", "gone"}]
  BY DEF TypeInv, TablesOK
<1>1. CASE Ask(a) \/ Guard(a)
  BY <1>1 DEF Ask, Guard, ReadRoles, Judge, Denied
<1>2. CASE UserStep(a)
  BY <1>2 DEF UserStep, LookForNoUser, CreateUser, LookForUser, SetRoles, SetPassword,
    LookForSelf, ChangePassword, DeleteUser, Rewrite
<1>3. CASE RoleStep(a)
  <2>1. CASE LookForRole(a)
    BY <2>1 DEF LookForRole, Is
  <2>2. CASE CreateRole(a) \/ LookForName(a) \/ UseTemplate(a)
    BY <1>0, <2>2 DEF CreateRole, LookForName, UseTemplate
  <2>3. CASE RenameRole(a) \/ AddMember(a) \/ RemoveMember(a)
    BY <1>0, <2>3 DEF RenameRole, AddMember, RemoveMember
  <2>4. CASE DeleteRole(a)
    BY <1>0, <2>4 DEF DeleteRole
  <2> QED
    BY <1>3, <2>1, <2>2, <2>3, <2>4 DEF RoleStep
<1>4. CASE PolicyStep(a)
  BY <1>4 DEF PolicyStep, CreatePolicy, LookForPolicy, UpdatePolicy, DeletePolicy
<1>5. CASE StartStep(a)
  <2>1. CASE StartUp(a) /\ ~Ends(a)
    BY <1>0, <2>1, StartWrites
  <2> QED
    BY <1>5, <2>1 DEF StartStep, LookForDefaults
<1> QED
  BY <1>1, <1>2, <1>3, <1>4, <1>5 DEF Handle

\* A deletion that looks for its role reads all there is of it.
LEMMA DeletionReads ==
  ASSUME TypeInv, NEW a \in Processes, Ask(a) \/ Handle(a), Is(a, "delete role", "commit")'
  PROVE  /\ UNCHANGED <<member, policy>> /\ Of(a)' = Of(a)
         /\ (Read(a).pairs)' = Members(Of(a)) /\ (Read(a).rows)' = Grants(Of(a))
<1>0. RequestOK(request[a], user, role)
  BY DEF TypeInv, RequestsOK
<1>1. PICK q : request'[a] = q /\ Becomes(a, q)
  BY OneBecomes, BecomesThat DEF TypeInv
<1>2. q.kind = "delete role" /\ q.pc = "commit"
  BY <1>1 DEF Is
<1>3. ~Ask(a) /\ ~ReadRoles(a) /\ ~Judge(a) /\ ~Becomes(a, Idle)
  <2>1. ~Becomes(a, Idle)
    <3>1. Becomes(a, Idle) => q = Idle
      BY <1>1, BecomesThat DEF TypeInv
    <3>2. Idle.kind # "delete role"
      BY DEF Idle
    <3> QED
      BY <1>2, <3>1, <3>2
  <2>2. ~Ask(a)
    <3>1. SUFFICES ASSUME NEW u, NEW want, Becomes(a, [Idle EXCEPT
              !.pc = IF want[1] \in Unguarded THEN "look" ELSE "roles",
              !.kind = want[1], !.by = u, !.of = want[2], !.arg = want[3]])
          PROVE  FALSE
      BY DEF Ask
    <3>2. q = [Idle EXCEPT !.pc = IF want[1] \in Unguarded THEN "look" ELSE "roles",
               !.kind = want[1], !.by = u, !.of = want[2], !.arg = want[3]]
      BY <1>1, <3>1, BecomesThat DEF TypeInv
    <3> QED
      BY <1>2, <3>2 DEF Idle
  <2>3. ~ReadRoles(a)
    <3>1. SUFFICES ASSUME Becomes(a, [request[a] EXCEPT !.pc = "policies", !.read = RoleIds(request[a].by)])
          PROVE  FALSE
      BY DEF ReadRoles
    <3>2. q = [request[a] EXCEPT !.pc = "policies", !.read = RoleIds(request[a].by)]
      BY <1>1, <3>1, BecomesThat DEF TypeInv
    <3> QED
      BY <1>0, <1>2, <3>2 DEF RequestOK, Fields
  <2>4. ~Judge(a)
    <3>1. SUFFICES ASSUME NEW v, NEW pc \in {"look", "denied"},
                          Becomes(a, [request[a] EXCEPT !.verdict = v, !.pc = pc, !.read = None])
          PROVE  FALSE
      BY DEF Judge
    <3>2. q = [request[a] EXCEPT !.verdict = v, !.pc = pc, !.read = None]
      BY <1>1, <3>1, BecomesThat DEF TypeInv
    <3> QED
      BY <1>0, <1>2, <3>2 DEF RequestOK, Fields
  <2> QED
    BY <2>1, <2>2, <2>3, <2>4
<1>4. PICK read : Reads(a, read) /\ request[a].pc = "look"
  BY <1>3, HandlerGoesOn
<1>5. q = [request[a] EXCEPT !.pc = "commit", !.read = read]
  BY <1>1, <1>4, BecomesThat DEF Reads, TypeInv
<1>6. /\ request[a].kind = "delete role" /\ q.of = request[a].of /\ q.read = read
  BY <1>0, <1>2, <1>5 DEF RequestOK, Fields
<1>7. LookForRole(a)
  <2> USE <1>3, <1>4, <1>6 DEF Is
  <2>1. ~Guard(a)
    BY DEF Guard, Denied
  <2>2. ~UserStep(a)
    BY DEF UserStep, LookForNoUser, CreateUser, LookForUser, SetRoles, SetPassword,
      LookForSelf, ChangePassword, DeleteUser
  <2>3. ~PolicyStep(a) /\ ~StartStep(a)
    BY DEF PolicyStep, CreatePolicy, LookForPolicy, UpdatePolicy, DeletePolicy, StartStep,
      LookForDefaults, StartUp
  <2>4. RoleStep(a) => LookForRole(a)
    BY DEF RoleStep, CreateRole, LookForName, UseTemplate, RenameRole, DeleteRole, AddMember,
      RemoveMember
  <2> QED
    BY <2>1, <2>2, <2>3, <2>4 DEF Handle
<1>8. Reads(a, [pairs |-> Members(Of(a)), rows |-> Grants(Of(a))])
  BY <1>3, <1>6, <1>7 DEF LookForRole, Ends, Members, Grants
<1>9. q = [request[a] EXCEPT !.pc = "commit",
             !.read = [pairs |-> Members(Of(a)), rows |-> Grants(Of(a))]]
  BY <1>1, <1>8, BecomesThat DEF Reads, TypeInv
<1>10. q.read.pairs = Members(Of(a)) /\ q.read.rows = Grants(Of(a))
  BY <1>0, <1>9 DEF RequestOK, Fields
<1> QED
  BY <1>1, <1>6, <1>8, <1>10 DEF Reads, tables, Of, Read

\* Nothing is left of a role that went, unless something of it strayed.
LeftInv ==
  \A r \in Roles : role[r] = "gone" /\ r \notin strayed => Members(r) = {} /\ Grants(r) = {}

LEMMA LeftStep ==
  ASSUME TypeInv, DeletionInv, LeftInv, NEW a \in Processes, Ask(a) \/ Handle(a)
  PROVE  LeftInv'
<1> SUFFICES ASSUME NEW r \in Roles, role'[r] = "gone", r \notin strayed'
             PROVE  Members(r)' = {} /\ Grants(r)' = {}
  BY DEF LeftInv
<1>1. NothingAdded
  BY StepAdds
<1>2. CASE role[r] = "gone"
  BY <1>1, <1>2 DEF NothingAdded, Going, LeftInv
<1>3. CASE role[r] # "gone"
  <2>1. DeleteRole(a) /\ Of(a) = r
    BY <1>3, OnlyDeleted
  <2>2. Members(r) \subseteq Read(a).pairs /\ Grants(r) \subseteq Read(a).rows
    BY <1>1, <2>1 DEF NothingAdded, DeletionInv, DeleteRole
  <2>3. /\ member' = member \ Read(a).pairs
        /\ policy' = [p \in Policies |-> IF p \in Read(a).rows THEN Gone ELSE policy[p]]
    BY <2>1 DEF DeleteRole
  <2>4. Members(r)' = {}
    BY <2>2, <2>3 DEF Members
  <2>5. Grants(r)' = {}
    BY <2>2, <2>3 DEF Grants, Rows
  <2> QED
    BY <2>4, <2>5
<1> QED
  BY <1>2, <1>3

LEMMA DeletionStep ==
  ASSUME TypeInv, DeletionInv, NEW a \in Processes, Ask(a) \/ Handle(a)
  PROVE  DeletionInv'
<1> SUFFICES ASSUME NEW b \in Processes, Is(b, "delete role", "commit")', Of(b)' \notin strayed'
             PROVE  Members(Of(b))' \subseteq (Read(b).pairs)' /\ Grants(Of(b))' \subseteq (Read(b).rows)'
  BY DEF DeletionInv
<1>1. CASE b = a
  <2>1. /\ UNCHANGED <<member, policy>> /\ Of(a)' = Of(a)
        /\ (Read(a).pairs)' = Members(Of(a)) /\ (Read(a).rows)' = Grants(Of(a))
    BY <1>1, DeletionReads
  <2>2. Members(Of(a))' = Members(Of(a)) /\ Grants(Of(a))' = Grants(Of(a))
    BY <2>1 DEF Members, Grants, Rows
  <2>3. Members(Of(a))' \subseteq (Read(a).pairs)' /\ Grants(Of(a))' \subseteq (Read(a).rows)'
    BY <2>1, <2>2
  <2> QED
    BY <1>1, <2>3 DEF Members, Grants, Rows, Of, Read
<1>2. CASE b # a
  <2>1. request'[b] = request[b]
    BY <1>2, OthersStand
  <2>2. Is(b, "delete role", "commit") /\ Of(b)' = Of(b) /\ Read(b)' = Read(b)
    BY <2>1 DEF Is, Of, Read
  <2>3. PICK r \in Roles : r = Of(b)
    BY <2>2, PlacedNow DEF Is, Of, Placed
  <2>4. Going(r) /\ NothingAdded /\ r \notin strayed'
    BY <2>2, <2>3, StepAdds DEF Going, Deleting
  <2>5. Members(r) \subseteq Read(b).pairs /\ Grants(r) \subseteq Read(b).rows
    BY <2>2, <2>3, <2>4 DEF DeletionInv, NothingAdded
  <2>6. Members(r)' \subseteq Read(b).pairs /\ Grants(r)' \subseteq Read(b).rows
    BY <2>4, <2>5 DEF NothingAdded
  <2>7. Members(Of(b))' = Members(r)' /\ Grants(Of(b))' = Grants(r)'
    BY <2>2, <2>3 DEF Members, Grants, Rows
  <2> QED
    BY <2>2, <2>6, <2>7
<1> QED
  BY <1>1, <1>2

\* A role goes with its policies and its members, whatever commits after it,
\* except where a request named the role when it was gone or going.
THEOREM GoneAlwaysLeavesNothing == Spec => []GoneRoleLeavesNothing
<1>1. Init => DeletionInv /\ LeftInv
  <2> SUFFICES ASSUME Init PROVE DeletionInv /\ LeftInv
    OBVIOUS
  <2>1. \A a \in Processes : request[a].pc = "idle"
    BY DEF Init, Idle
  <2> QED
    BY <2>1, InitTables DEF DeletionInv, LeftInv, Is
<1>2. TypeInv /\ DeletionInv /\ LeftInv /\ [Next]_vars => DeletionInv' /\ LeftInv'
  <2>1. TypeInv /\ DeletionInv /\ LeftInv /\ UNCHANGED vars => DeletionInv' /\ LeftInv'
    BY DEF vars, tables, DeletionInv, LeftInv, Is, Of, Read, Members, Grants, Rows
  <2>2. TypeInv /\ DeletionInv /\ LeftInv /\ Next => DeletionInv' /\ LeftInv'
    BY DeletionStep, LeftStep DEF Next
  <2> QED
    BY <2>1, <2>2
<1>3. LeftInv => GoneRoleLeavesNothing
  BY DEF LeftInv, GoneRoleLeavesNothing, Members, Grants
<1> QED
  BY <1>1, <1>2, <1>3, InitType, TypeStep, PTL DEF Spec

-----------------------------------------------------------------------------
(***************************************************************************)
(* Proofs about ControlPlane, for any administrators, addresses, tools,    *)
(* definitions and bounds: types; the server's tools are in the registry;  *)
(* and what is configured is what is used.  A task is described by         *)
(* TaskRight, and what each step makes of it by the lemma with its name    *)
(* and Now; what the lone request has still before it, by Fits.            *)
(***************************************************************************)

\* Where a request for a change stands: what its value is by the setting, and
\* where it may be on its way.  A custom tool is deleted under its name until
\* the saved definitions have been read.
AnyValue == Servers \union Defs \union Models \union CustomRefs \union {Unset}
AnyTask == [pc : Pcs, key : {"servers", "defs", "model"}, value : AnyValue,
            then : {"over", "align", "drop"}, n : Nat, refs : SUBSET Refs]
Asking == {"get", "read", "insert"}
Starting == {"start model", "start servers", "start defs"}
TaskRight(r) ==
  /\ r.key = "servers" => r.value \in Servers \union {Unset}
  /\ r.key = "defs" /\ r.pc = "get" => r.value \in CustomRefs
  /\ r.key = "defs" /\ r.pc # "get" => r.value \in Defs
  /\ r.key = "defs" => r.refs \subseteq CustomRefs
  /\ r.key = "model" /\ r.pc \in Asking => r.value \in Models
  /\ r.pc \in Asking => (r.then = "over" <=> r.key = "model")
  /\ r.pc = "get" => r.key # "servers" /\ (r.key = "defs" => r.then = "drop")
  /\ r.pc \in {"align", "policy", "drop"} => r.key # "model"
  /\ r.pc \in {"connect", "list"} => r.key = "servers" /\ On(r.value)
  /\ r.pc = "define" => r.key = "defs" /\ \A c \in r.refs : r.value[c] # Unset
  /\ r.pc \in Starting => r.key = "model" /\ r.refs = {}
  /\ r.pc = "idle" => r = NoTask
TasksRight ==
  /\ task \in [Changers -> AnyTask]
  /\ \A a \in Changers : TaskRight(task[a])
MemoryTypes ==
  /\ registry \in [Refs -> Owner \union {Unset}]
  /\ client \in Urls \union {Unset}
  /\ tools \in (SUBSET ServerRefs) \union {Unset}
  /\ custom \in [CustomRefs -> Codes \union {Unset}]
  /\ live \in Models \union {Unset}
ConfigTypes ==
  /\ config \in [Settings -> [version : Nat, value : UNION {Values[k] : k \in Settings}]]
  /\ \A k \in Settings : config[k].value \in Values[k]
CountTypes ==
  /\ policies \subseteq Refs
  /\ changes \in 0 .. MaxChanges /\ restarts \in 0 .. MaxRestarts /\ calm \in BOOLEAN
ControlInv == TasksRight /\ MemoryTypes /\ ConfigTypes /\ CountTypes

-----------------------------------------------------------------------------
LEMMA SettingsAre ==
  /\ Settings = {"servers", "defs", "model"}
  /\ Values["servers"] = Servers \union {Unset} /\ Values["defs"] = Defs
  /\ Values["model"] = Models \union {Unset}
BY DEF Settings, Values

LEMMA NoTaskType ==
  /\ NoTask \in AnyTask /\ TaskRight(NoTask) /\ NoTask.pc = "idle" /\ NoTask.key = "model"
  /\ \A pc \in Starting : LET now == [NoTask EXCEPT !.pc = pc] IN
       now \in AnyTask /\ TaskRight(now) /\ now.pc = pc /\ now.key = "model" /\ now # NoTask
BY DEF NoTask, AnyTask, AnyValue, TaskRight, Pcs, Asking, Starting

LEMMA ConfigIs ==
  ASSUME ConfigTypes
  PROVE  /\ \A k \in Settings : config[k].version \in Nat
         /\ config["servers"].value \in Servers \union {Unset}
         /\ config["defs"].value \in Defs
         /\ config["model"].value \in Models \union {Unset}
BY SettingsAre DEF ConfigTypes

\* One task moves, the others stand.
Now(a, now) == now \in AnyTask /\ TaskRight(now) /\ task' = [task EXCEPT ![a] = now]
LEMMA NowRight ==
  ASSUME TasksRight, NEW a \in Changers, NEW now, Now(a, now)
  PROVE  TasksRight' /\ task'[a] = now /\ \A b \in Changers \ {a} : task'[b] = task[b]
BY DEF TasksRight, Now

\* Of a request that is over nothing remains, but the start goes on.
Done(a) == IF a = Startup /\ task[a].key = "servers" THEN [NoTask EXCEPT !.pc = "start defs"] ELSE NoTask
LEMMA OverNow ==
  ASSUME TasksRight, NEW a \in Changers, Over(a)
  PROVE  Now(a, Done(a))
BY NoTaskType DEF Over, Done, Now, Starting, TasksRight

LEMMA GoesNow ==
  ASSUME TasksRight, NEW a \in Changers, NEW pc \in Pcs, Goes(a, pc),
         TaskRight([task[a] EXCEPT !.pc = pc])
  PROVE  Now(a, [task[a] EXCEPT !.pc = pc])
BY DEF Goes, Now, TasksRight, AnyTask

-----------------------------------------------------------------------------
(* Where each step leads *)

LEMMA TaskIs ==
  ASSUME ControlInv, NEW a \in Changers
  PROVE  /\ a \in DOMAIN task /\ task[a] \in AnyTask /\ TaskRight(task[a])
         /\ task[a].pc # "idle" => task[a] # NoTask
BY NoTaskType DEF ControlInv, TasksRight

Begun(pc, key, value, then) ==
  [NoTask EXCEPT !.pc = pc, !.key = key, !.value = value, !.then = then]
\* What may be asked: of the values, and of the gateway meanwhile.
AskRight(pc, key, value, then) ==
  /\ pc \in {"get", "read"} /\ key \in {"servers", "defs", "model"}
  /\ then \in {"over", "align", "drop"}
  /\ key = "model" <=> then = "over"
  /\ pc = "get" => key # "servers"
  /\ key = "servers" => value \in Servers \union {Unset}
  /\ key = "servers" /\ then = "drop" => value = Unset
  /\ key = "defs" => (then = "drop" <=> pc = "get")
  /\ key = "defs" /\ pc = "get" => value \in CustomRefs
  /\ key = "defs" /\ pc # "get" => value \in Defs
  /\ key = "model" => value \in Models
Begins(now, pc, key, value, then) ==
  /\ now \in AnyTask /\ TaskRight(now)
  /\ now.pc = pc /\ now.key = key /\ now.value = value /\ now.then = then /\ now.refs = {}
LEMMA BegunType ==
  ASSUME NEW pc, NEW key, NEW value, NEW then, AskRight(pc, key, value, then)
  PROVE  Begins(Begun(pc, key, value, then), pc, key, value, then)
<1> DEFINE now == Begun(pc, key, value, then)
<1>1. /\ now.pc = pc /\ now.key = key /\ now.value = value
      /\ now.then = then /\ now.refs = {}
  BY DEF Begun, NoTask
<1>2. value \in AnyValue
  BY DEF AnyValue, AskRight
<1>3. now \in AnyTask
  BY <1>2 DEF Begun, NoTask, AnyTask, Pcs, AskRight
<1> HIDE DEF now
<1>4. TaskRight(now)
  BY <1>1 DEF TaskRight, Asking, Starting, AskRight
<1> QED
  BY <1>1, <1>3, <1>4 DEF now, Begins

\* An administrator's request has begun.
AskedOf(a) ==
  /\ task[a] = NoTask /\ task[Startup] = NoTask
  /\ \E now :
       /\ Now(a, now) /\ now.refs = {} /\ AskRight(now.pc, now.key, now.value, now.then)
       /\ now.key = "model" =>
            live' = Configured(now.value) /\ (now.pc = "get" <=> now.value.key = "")
       /\ now.key # "model" => live' = live
AskRest ==
  /\ UNCHANGED <<config, policies, registry, client, tools, custom, restarts>>
  /\ changes < MaxChanges /\ changes' = changes + 1
  /\ calm' = (calm /\ Quiet)
LEMMA BeginAsked ==
  ASSUME NEW a \in Changers, NEW pc, NEW key, NEW value, NEW then,
         AskRight(pc, key, value, then), Begin(a, pc, key, value, then),
         key = "model" => live' = Configured(value) /\ (pc = "get" <=> value.key = ""),
         key # "model" => live' = live
  PROVE  AskedOf(a) /\ AskRest
<1> DEFINE now == Begun(pc, key, value, then)
<1>1. Begins(now, pc, key, value, then)
  BY BegunType
<1>2. task[a] = NoTask /\ task[Startup] = NoTask /\ Now(a, now)
  BY <1>1 DEF Begin, Begun, Begins, Now
<1> HIDE DEF now
<1>3. AskedOf(a)
  BY <1>1, <1>2 DEF AskedOf, Begins
<1>4. AskRest
  BY DEF Begin, AskRest
<1> QED
  BY <1>3, <1>4

LEMMA OffType == Off \in Servers /\ ~Off.on
<1>1. PICK u \in Urls, only \in Allowed : TRUE
  BY ControlAssumption
<1>2. [on |-> FALSE, url |-> u, only |-> only] \in Servers
      /\ ~[on |-> FALSE, url |-> u, only |-> only].on
  BY <1>1 DEF Servers
<1> QED
  BY <1>2 DEF Off

LEMMA AskNow ==
  ASSUME ControlInv, NEW a \in Changers, AskChange(a)
  PROVE  AskedOf(a) /\ AskRest
<1>1. ASSUME NEW v \in {s \in Servers : s.on} \union {Off, Unset}, PutServers(a, v)
      PROVE  AskedOf(a) /\ AskRest
  <2>1. Begin(a, "read", "servers", v, "align") /\ live' = live
    BY <1>1 DEF PutServers
  <2>2. AskRight("read", "servers", v, "align")
    BY OffType DEF AskRight
  <2> QED
    BY <2>1, <2>2, BeginAsked
<1>2. ASSUME NEW v \in Defs, PutDefs(a, v)
      PROVE  AskedOf(a) /\ AskRest
  <2>1. Begin(a, "read", "defs", v, "align") /\ live' = live
    BY <1>2 DEF PutDefs
  <2>2. AskRight("read", "defs", v, "align")
    BY DEF AskRight
  <2> QED
    BY <2>1, <2>2, BeginAsked
<1>3. ASSUME NEW r \in CustomRefs, DeleteDef(a, r)
      PROVE  AskedOf(a) /\ AskRest
  <2>1. Begin(a, "get", "defs", r, "drop") /\ live' = live
    BY <1>3 DEF DeleteDef
  <2>2. AskRight("get", "defs", r, "drop")
    BY DEF AskRight
  <2> QED
    BY <2>1, <2>2, BeginAsked
<1>4. ASSUME NEW m \in Models, SetModel(a, m)
      PROVE  AskedOf(a) /\ AskRest
  <2> DEFINE pc == IF m.key = "" THEN "get" ELSE "read"
  <2>1. Begin(a, pc, "model", m, "over") /\ live' = Configured(m)
    BY <1>4 DEF SetModel
  <2>2. pc \in {"get", "read"} /\ (pc = "get" <=> m.key = "")
    OBVIOUS
  <2> HIDE DEF pc
  <2>3. AskRight(pc, "model", m, "over")
    BY <2>2 DEF AskRight
  <2> QED
    BY <2>1, <2>2, <2>3, BeginAsked
<1>5. CASE DeleteServer(a)
  <2>1. Begin(a, "read", "servers", Unset, "drop") /\ live' = live
    BY <1>5 DEF DeleteServer
  <2>2. AskRight("read", "servers", Unset, "drop")
    BY DEF AskRight
  <2> QED
    BY <2>1, <2>2, BeginAsked
<1> QED
  BY <1>1, <1>2, <1>3, <1>4, <1>5 DEF AskChange

\* A request goes on, what it is about in these fields.
Moved(a, pc, key, value, then, refs) ==
  \E now :
    /\ Now(a, now) /\ now.pc = pc /\ now.key = key /\ now.value = value
    /\ now.then = then /\ now.refs = refs
LEMMA MovedTask ==
  ASSUME TasksRight, NEW a \in Changers, NEW pc, NEW key, NEW value, NEW then, NEW refs,
         Moved(a, pc, key, value, then, refs)
  PROVE  /\ TasksRight' /\ TaskRight(task[a])' /\ \A b \in Changers \ {a} : task'[b] = task[b]
         /\ task'[a].pc = pc /\ task'[a].key = key /\ task'[a].value = value
         /\ task'[a].then = then /\ task'[a].refs = refs
<1>1. PICK now : /\ Now(a, now) /\ now.pc = pc /\ now.key = key /\ now.value = value
                 /\ now.then = then /\ now.refs = refs
  BY DEF Moved
<1>2. TasksRight' /\ task'[a] = now /\ \A b \in Changers \ {a} : task'[b] = task[b]
  BY <1>1, NowRight
<1>3. TaskRight(task[a])'
  BY <1>2 DEF TasksRight
<1> QED
  BY <1>1, <1>2, <1>3

LEMMA GetSavedNow ==
  ASSUME ControlInv, NEW a \in Changers, GetSaved(a)
  PROVE  LET r == task[a]
             saved == config[r.key].value IN
         /\ r.pc = "get" /\ r.key \in {"defs", "model"}
         /\ r.key = "defs" => Moved(a, "read", "defs", [saved EXCEPT ![r.value] = Unset], "drop", {r.value})
         /\ r.key = "model" => Moved(a, "read", "model", [r.value EXCEPT !.key = SavedKey(saved)], "over", r.refs)
<1> DEFINE r == task[a]
           saved == config[r.key].value
<1>1. r \in AnyTask /\ TaskRight(r) /\ r.pc = "get" /\ r.key \in {"defs", "model"}
  BY TaskIs DEF GetSaved, TaskRight, AnyTask
<1>2. CASE r.key = "defs"
  <2> DEFINE value == [saved EXCEPT ![r.value] = Unset]
             now == [r EXCEPT !.pc = "read", !.value = value, !.refs = {r.value}]
  <2>1. r.value \in CustomRefs /\ saved \in Defs /\ r.then = "drop"
    BY <1>1, <1>2, ConfigIs DEF ControlInv, TaskRight
  <2>2. value \in Defs
    BY <2>1 DEF Defs
  <2>3. task' = [task EXCEPT ![a] = now]
    BY <1>2 DEF GetSaved
  <2> HIDE DEF value
  <2>4. /\ now.pc = "read" /\ now.key = "defs" /\ now.value = value
        /\ now.then = "drop" /\ now.refs = {r.value}
    BY <1>1, <1>2, <2>1 DEF AnyTask
  <2>5. now \in AnyTask
    BY <1>1, <2>1, <2>2 DEF AnyTask, AnyValue, Pcs, Refs
  <2> HIDE DEF now
  <2>6. TaskRight(now)
    BY <2>1, <2>2, <2>4 DEF TaskRight, Asking, Starting
  <2>7. Moved(a, "read", "defs", value, "drop", {r.value})
    BY <2>3, <2>4, <2>5, <2>6 DEF Moved, Now
  <2> QED
    BY <1>1, <1>2, <2>7 DEF value
<1>3. CASE r.key = "model"
  <2> DEFINE value == [r.value EXCEPT !.key = SavedKey(saved)]
             now == [r EXCEPT !.pc = "read", !.value.key = SavedKey(saved)]
  <2>1. r.value \in Models /\ saved \in Models \union {Unset} /\ r.then = "over"
    BY <1>1, <1>3, ConfigIs DEF ControlInv, TaskRight, Asking
  <2>2. value \in Models
    BY <2>1 DEF Models, SavedKey
  <2>3. task' = [task EXCEPT ![a] = now]
    BY <1>3 DEF GetSaved
  <2>4. /\ now.pc = "read" /\ now.key = "model" /\ now.value = value
        /\ now.then = "over" /\ now.refs = r.refs
    BY <1>1, <1>3, <2>1 DEF AnyTask
  <2>5. now \in AnyTask
    <3>1. value \in AnyValue
      BY <2>2 DEF AnyValue
    <3>2. now = [r EXCEPT !.pc = "read", !.value = value]
      OBVIOUS
    <3> HIDE DEF now, value
    <3> QED
      BY <1>1, <3>1, <3>2 DEF AnyTask, Pcs
  <2> HIDE DEF now, value
  <2>6. TaskRight(now)
    BY <2>1, <2>2, <2>4 DEF TaskRight, Asking, Starting
  <2>7. Moved(a, "read", "model", value, "over", r.refs)
    BY <2>3, <2>4, <2>5, <2>6 DEF Moved, Now
  <2> QED
    BY <1>1, <1>3, <2>7 DEF value
<1> QED
  BY <1>1, <1>2, <1>3

LEMMA ReadVersionNow ==
  ASSUME ControlInv, NEW a \in Changers, ReadVersion(a)
  PROVE  LET r == task[a] IN r.pc = "read" /\ Moved(a, "insert", r.key, r.value, r.then, r.refs)
<1> DEFINE r == task[a]
           next == config[r.key].version + 1
           now == [r EXCEPT !.pc = "insert", !.n = next]
<1>1. r \in AnyTask /\ TaskRight(r) /\ r.pc = "read" /\ r.key \in Settings
  BY TaskIs, SettingsAre DEF ReadVersion, AnyTask
<1>2. next \in Nat
  BY <1>1, ConfigIs DEF ControlInv
<1>3. task' = [task EXCEPT ![a] = now]
  BY <1>1, TaskIs DEF ReadVersion
<1> HIDE DEF next
<1>4. /\ now.pc = "insert" /\ now.key = r.key /\ now.value = r.value
      /\ now.then = r.then /\ now.refs = r.refs /\ now \in AnyTask
  BY <1>1, <1>2 DEF AnyTask, Pcs
<1> HIDE DEF now
<1>5. TaskRight(now)
  BY <1>1, <1>4 DEF TaskRight, Asking, Starting
<1> QED
  BY <1>1, <1>3, <1>4, <1>5 DEF Moved, Now

MayGo(r, pc) ==
  \A now : now.pc = pc /\ now.key = r.key /\ now.value = r.value
           /\ now.then = r.then /\ now.refs = r.refs => TaskRight(now)
LEMMA GoesMoved ==
  ASSUME TasksRight, NEW a \in Changers, NEW pc \in Pcs, Goes(a, pc), MayGo(task[a], pc)
  PROVE  Moved(a, pc, task[a].key, task[a].value, task[a].then, task[a].refs)
<1> DEFINE now == [task[a] EXCEPT !.pc = pc]
<1>1. task[a] \in AnyTask
  BY DEF TasksRight
<1>2. /\ now.pc = pc /\ now.key = task[a].key /\ now.value = task[a].value
      /\ now.then = task[a].then /\ now.refs = task[a].refs /\ now \in AnyTask
  BY <1>1 DEF AnyTask
<1>3. task' = [task EXCEPT ![a] = now]
  BY DEF Goes
<1> HIDE DEF now
<1>4. TaskRight(now)
  BY <1>2 DEF MayGo
<1> QED
  BY <1>2, <1>3, <1>4 DEF Moved, Now

LEMMA InsertNow ==
  ASSUME ControlInv, NEW a \in Changers, InsertVersion(a)
  PROVE  LET r == task[a] IN
         /\ r.pc = "insert" /\ UNCHANGED <<policies, memory, changes, restarts>>
         /\ \/ /\ config' = [config EXCEPT ![r.key] = [version |-> r.n, value |-> r.value]]
               /\ calm' = calm
               /\ r.then = "over" => r.key = "model" /\ Over(a)
               /\ r.then # "over" => /\ r.key # "model" /\ r.then \in {"align", "drop"}
                                     /\ Moved(a, r.then, r.key, r.value, r.then, r.refs)
            \/ Fails(a) /\ config' = config
<1> DEFINE r == task[a]
<1>1. r \in AnyTask /\ TaskRight(r) /\ r.pc = "insert"
  BY TaskIs DEF InsertVersion
<1>2. r.then = "over" <=> r.key = "model"
  BY <1>1 DEF TaskRight, Asking
<1>3. r.then # "over" => r.then \in {"align", "drop"}
  BY <1>1 DEF AnyTask
<1>4. ASSUME r.then # "over", Goes(a, r.then)
      PROVE  Moved(a, r.then, r.key, r.value, r.then, r.refs)
  <2>1. r.then \in Pcs
    BY <1>3, <1>4 DEF Pcs
  <2>2. MayGo(r, r.then)
    BY <1>1, <1>2, <1>3, <1>4 DEF MayGo, TaskRight, Asking, Starting
  <2> QED
    BY <1>4, <2>1, <2>2, GoesMoved DEF ControlInv
<1> QED
  BY <1>1, <1>2, <1>3, <1>4 DEF InsertVersion

LEMMA AlignServersNow ==
  ASSUME ControlInv, NEW a \in Changers, AlignServers(a)
  PROVE  LET v == task[a].value IN
         /\ task[a].pc = "align" /\ task[a].key = "servers" /\ v \in Servers \union {Unset}
         /\ UNCHANGED <<config, policies, custom, live, changes, restarts, calm>>
         /\ \/ Over(a) /\ ~On(v) /\ tools # Unset /\ Unregister
            \/ Over(a) /\ ~On(v) /\ tools = Unset /\ UNCHANGED <<registry, client, tools>>
            \/ Over(a) /\ On(v) /\ client = v.url /\ UNCHANGED <<registry, client, tools>>
            \/ /\ On(v) /\ Unregister
               /\ Moved(a, "connect", "servers", v, task[a].then, task[a].refs)
<1> DEFINE r == task[a]
<1>1. r \in AnyTask /\ TaskRight(r) /\ r.pc = "align" /\ r.key = "servers"
  BY TaskIs DEF AlignServers, At
<1>2. r.value \in Servers \union {Unset}
  BY <1>1 DEF TaskRight
<1>3. ASSUME On(r.value), Goes(a, "connect")
      PROVE  Moved(a, "connect", "servers", r.value, r.then, r.refs)
  <2>1. "connect" \in Pcs
    BY DEF Pcs
  <2>2. MayGo(r, "connect")
    BY <1>1, <1>2, <1>3 DEF MayGo, TaskRight, Asking, Starting
  <2> QED
    BY <1>1, <1>3, <2>1, <2>2, GoesMoved DEF ControlInv
<1>4. UNCHANGED <<config, policies, custom, live, changes, restarts, calm>>
  BY DEF AlignServers
<1> HIDE DEF r
<1>5. \/ Over(a) /\ ~On(r.value) /\ tools # Unset /\ Unregister
      \/ Over(a) /\ ~On(r.value) /\ tools = Unset /\ UNCHANGED <<registry, client, tools>>
      \/ Over(a) /\ On(r.value) /\ client = r.value.url /\ UNCHANGED <<registry, client, tools>>
      \/ On(r.value) /\ Unregister /\ Goes(a, "connect")
  BY DEF AlignServers, Value, r
<1> QED
  BY <1>1, <1>2, <1>3, <1>4, <1>5 DEF r

LEMMA ConnectNow ==
  ASSUME ControlInv, NEW a \in Changers, Connect(a)
  PROVE  LET v == task[a].value IN
         /\ task[a].pc = "connect" /\ task[a].key = "servers" /\ v \in Servers /\ On(v)
         /\ UNCHANGED <<config, policies, registry, tools, custom, live, changes, restarts>>
         /\ \/ /\ client' = v.url /\ calm' = calm
               /\ Moved(a, "list", "servers", v, task[a].then, task[a].refs)
            \/ Fails(a) /\ client' = client
<1> DEFINE r == task[a]
<1>1. r \in AnyTask /\ TaskRight(r) /\ r.pc = "connect"
  BY TaskIs DEF Connect
<1>2. r.key = "servers" /\ On(r.value) /\ r.value \in Servers
  BY <1>1 DEF TaskRight, On
<1>3. ASSUME Goes(a, "list")
      PROVE  Moved(a, "list", "servers", r.value, r.then, r.refs)
  <2>1. "list" \in Pcs
    BY DEF Pcs
  <2>2. MayGo(r, "list")
    BY <1>1, <1>2 DEF MayGo, TaskRight, Asking, Starting
  <2> QED
    BY <1>2, <1>3, <2>1, <2>2, GoesMoved DEF ControlInv
<1> QED
  BY <1>1, <1>2, <1>3 DEF Connect, Value

\* The tools that a server gets: those it wants, or those before the first
\* whose name is taken.
Taken(v) == {r \in Wanted(v) : registry[r] # Unset}
Free(v) == LET place(r) == CHOOSE i \in DOMAIN Offered : Offered[i] = r IN
  {r \in Wanted(v) : \A t \in Taken(v) : place(r) < place(t)}
LEMMA FreeTools ==
  ASSUME NEW v
  PROVE  Free(v) \subseteq Wanted(v) /\ Wanted(v) \subseteq ServerRefs
         /\ (Taken(v) = {} => Free(v) = Wanted(v) /\ \A r \in Free(v) : registry[r] = Unset)
BY DEF Free, Wanted, Taken

\* The server is registered.
Registers(v) ==
  registry' = [r \in Refs |-> IF r \in Free(v) THEN [by |-> "server", of |-> v.url] ELSE registry[r]]
LEMMA ListToolsNow ==
  ASSUME ControlInv, NEW a \in Changers, ListTools(a)
  PROVE  LET v == task[a].value IN
         /\ task[a].pc = "list" /\ task[a].key = "servers" /\ v \in Servers /\ On(v)
         /\ UNCHANGED <<config, policies, client, custom, live, changes, restarts>>
         /\ \/ Fails(a) /\ UNCHANGED <<registry, tools>>
            \/ Fails(a) /\ tools' = tools /\ Registers(v)
            \/ /\ Taken(v) = {} /\ Registers(v) /\ tools' = Free(v) /\ calm' = calm
               /\ Moved(a, "policy", "servers", v, task[a].then, Free(v))
<1> DEFINE r == task[a]
<1>1. r \in AnyTask /\ TaskRight(r) /\ r.pc = "list"
  BY TaskIs DEF ListTools
<1>2. r.key = "servers" /\ On(r.value) /\ r.value \in Servers
  BY <1>1 DEF TaskRight, On
<1>3. ASSUME task' = [task EXCEPT ![a].pc = "policy", ![a].refs = Free(r.value)]
      PROVE  Moved(a, "policy", "servers", r.value, r.then, Free(r.value))
  <2> DEFINE now == [r EXCEPT !.pc = "policy", !.refs = Free(r.value)]
  <2>1. Free(r.value) \subseteq Refs
    BY FreeTools DEF Refs
  <2>2. task' = [task EXCEPT ![a] = now]
    BY <1>3, TaskIs
  <2>3. /\ now.pc = "policy" /\ now.key = "servers" /\ now.value = r.value
        /\ now.then = r.then /\ now.refs = Free(r.value) /\ now \in AnyTask
    BY <1>1, <1>2, <2>1 DEF AnyTask, Pcs
  <2> HIDE DEF now
  <2>4. TaskRight(now)
    BY <1>1, <1>2, <2>3 DEF TaskRight, Asking, Starting
  <2> QED
    BY <2>2, <2>3, <2>4 DEF Moved, Now
<1>4. UNCHANGED <<config, policies, client, custom, live, changes, restarts>>
  BY DEF ListTools
<1>5. \/ Fails(a) /\ UNCHANGED <<registry, tools>>
      \/ Fails(a) /\ tools' = tools /\ Registers(r.value)
      \/ /\ Taken(r.value) = {} /\ Registers(r.value) /\ tools' = Free(r.value) /\ calm' = calm
         /\ task' = [task EXCEPT ![a].pc = "policy", ![a].refs = Free(r.value)]
  BY Zenon DEF ListTools, Value, Registers, Free, Taken
<1> QED
  BY <1>1, <1>2, <1>3, <1>4, <1>5

LEMMA EnsureAllowPoliciesNow ==
  ASSUME ControlInv, NEW a \in Changers, EnsureAllowPolicies(a)
  PROVE  /\ task[a].pc = "policy" /\ task[a].key = "servers" /\ Over(a)
         /\ policies' = policies \union task[a].refs
         /\ UNCHANGED <<config, memory, changes, restarts, calm>>
BY DEF EnsureAllowPolicies, At

LEMMA DropServerNow ==
  ASSUME ControlInv, NEW a \in Changers, DropServer(a)
  PROVE  /\ task[a].pc = "drop" /\ task[a].key = "servers" /\ Over(a) /\ Unregister
         /\ UNCHANGED <<config, policies, custom, live, changes, restarts, calm>>
BY DEF DropServer, At

\* The custom tools that are not defined any more, or that are.
Undefined(v) == {r \in CustomRefs : custom[r] # Unset /\ v[r] = Unset}
Defining(v) == {r \in CustomRefs : v[r] # Unset}
LEMMA AlignDefsNow ==
  ASSUME ControlInv, NEW a \in Changers, AlignDefs(a)
  PROVE  LET v == task[a].value IN
         /\ task[a].pc = "align" /\ task[a].key = "defs" /\ v \in Defs
         /\ custom' = [r \in CustomRefs |-> IF r \in Undefined(v) THEN Unset ELSE custom[r]]
         /\ registry' = [r \in Refs |-> IF r \in Undefined(v) THEN Unset ELSE registry[r]]
         /\ UNCHANGED <<config, policies, client, tools, live, changes, restarts, calm>>
         /\ Moved(a, "define", "defs", v, task[a].then, Defining(v))
<1> DEFINE r == task[a]
           v == r.value
           now == [r EXCEPT !.pc = "define", !.refs = Defining(v)]
<1>1. r \in AnyTask /\ TaskRight(r) /\ r.pc = "align" /\ r.key = "defs"
  BY TaskIs DEF AlignDefs, At
<1>2. v \in Defs
  BY <1>1 DEF TaskRight
<1>3. /\ custom' = [c \in CustomRefs |-> IF c \in Undefined(v) THEN Unset ELSE custom[c]]
      /\ registry' = [c \in Refs |-> IF c \in Undefined(v) THEN Unset ELSE registry[c]]
      /\ UNCHANGED <<config, policies, client, tools, live, changes, restarts, calm>>
      /\ task' = [task EXCEPT ![a].pc = "define", ![a].refs = Defining(v)]
  BY DEF AlignDefs, Undefined, Defining, Value
<1>4. task' = [task EXCEPT ![a] = now]
  BY <1>3, TaskIs
<1>5. Defining(v) \subseteq CustomRefs
  BY DEF Defining
<1>6. /\ now.pc = "define" /\ now.key = "defs" /\ now.value = v
      /\ now.then = r.then /\ now.refs = Defining(v) /\ now \in AnyTask
  BY <1>1, <1>5 DEF AnyTask, Pcs, Refs
<1> HIDE DEF now
<1>7. TaskRight(now)
  BY <1>1, <1>2, <1>5, <1>6 DEF TaskRight, Asking, Starting, Defining
<1>8. Moved(a, "define", "defs", v, r.then, Defining(v))
  BY <1>4, <1>6, <1>7 DEF Moved, Now
<1> QED
  BY <1>1, <1>2, <1>3, <1>8

\* A definition is what it was, it replaces another, or it is refused.
Replaces(c, v) ==
  /\ custom' = [custom EXCEPT ![c] = CodeOf(v, c)]
  /\ registry' = [registry EXCEPT ![c] = [by |-> "custom", of |-> v[c]]]
Refuses(c) ==
  /\ custom' = [custom EXCEPT ![c] = Unset]
  /\ registry' = IF custom[c] # Unset THEN [registry EXCEPT ![c] = Unset] ELSE registry
LEMMA DefineNow ==
  ASSUME ControlInv, NEW a \in Changers, NEW c \in CustomRefs, Define(a, c)
  PROVE  LET r == task[a] IN
         /\ r.pc = "define" /\ r.key = "defs" /\ c \in r.refs /\ r.value \in Defs
         /\ r.value[c] # Unset /\ r.refs \subseteq CustomRefs
         /\ UNCHANGED <<config, policies, client, tools, live, changes, restarts>>
         /\ \/ /\ custom[c] = CodeOf(r.value, c) /\ UNCHANGED <<custom, registry, calm>>
               /\ Moved(a, "define", "defs", r.value, r.then, r.refs \ {c})
            \/ /\ custom[c] # Unset \/ registry[c] = Unset
               /\ Replaces(c, r.value) /\ calm' = calm
               /\ Moved(a, "policy", "defs", [r.value EXCEPT ![c] = Unset], r.then, r.refs)
            \/ /\ Refuses(c) /\ calm' = FALSE
               /\ Moved(a, "define", "defs", r.value, r.then, r.refs \ {c})
<1> DEFINE r == task[a]
           without == [r EXCEPT !.refs = @ \ {c}]
           new == [r EXCEPT !.pc = "policy", !.value = [@ EXCEPT ![c] = Unset]]
<1>1. r \in AnyTask /\ TaskRight(r) /\ r.pc = "define" /\ r.key = "defs" /\ c \in r.refs
  BY TaskIs DEF Define, At
<1>2. r.value \in Defs /\ r.refs \subseteq CustomRefs /\ r.then \in {"over", "align", "drop"}
      /\ \A d \in r.refs : r.value[d] # Unset
  BY <1>1 DEF TaskRight, AnyTask
<1>3. ASSUME task' = [task EXCEPT ![a].refs = @ \ {c}]
      PROVE  Moved(a, "define", "defs", r.value, r.then, r.refs \ {c})
  <2>1. task' = [task EXCEPT ![a] = without]
    BY <1>3
  <2>2. /\ without.pc = "define" /\ without.key = "defs" /\ without.value = r.value
        /\ without.then = r.then /\ without.refs = r.refs \ {c} /\ without \in AnyTask
    BY <1>1 DEF AnyTask
  <2> HIDE DEF without
  <2>3. TaskRight(without)
    BY <1>2, <2>2 DEF TaskRight, Asking, Starting
  <2> QED
    BY <2>1, <2>2, <2>3 DEF Moved, Now
<1>4. ASSUME task' = [task EXCEPT ![a].pc = "policy", ![a].value = [@ EXCEPT ![c] = Unset]]
      PROVE  Moved(a, "policy", "defs", [r.value EXCEPT ![c] = Unset], r.then, r.refs)
  <2> DEFINE left == [r.value EXCEPT ![c] = Unset]
  <2>1. left \in Defs
    BY <1>2 DEF Defs
  <2>2. task' = [task EXCEPT ![a] = new]
    BY <1>4, TaskIs
  <2>3. new = [r EXCEPT !.pc = "policy", !.value = left]
    OBVIOUS
  <2> HIDE DEF left, new
  <2>4. /\ new.pc = "policy" /\ new.key = "defs" /\ new.value = left
        /\ new.then = r.then /\ new.refs = r.refs /\ new \in AnyTask
    BY <1>1, <2>1, <2>3 DEF AnyTask, AnyValue, Pcs
  <2>5. TaskRight(new)
    BY <1>2, <2>1, <2>4 DEF TaskRight, Asking, Starting
  <2>6. Moved(a, "policy", "defs", left, r.then, r.refs)
    BY <2>2, <2>4, <2>5 DEF Moved, Now
  <2> QED
    BY <2>6 DEF left
<1>5. UNCHANGED <<config, policies, client, tools, live, changes, restarts>>
  BY DEF Define
<1>6. \/ /\ custom[c] = CodeOf(r.value, c) /\ UNCHANGED <<custom, registry, calm>>
         /\ task' = [task EXCEPT ![a].refs = @ \ {c}]
      \/ /\ custom[c] # Unset \/ registry[c] = Unset
         /\ Replaces(c, r.value) /\ calm' = calm
         /\ task' = [task EXCEPT ![a].pc = "policy", ![a].value = [@ EXCEPT ![c] = Unset]]
      \/ Refuses(c) /\ calm' = FALSE /\ task' = [task EXCEPT ![a].refs = @ \ {c}]
  BY Zenon DEF Define, Value, Replaces, Refuses
<1> QED
  BY <1>1, <1>2, <1>3, <1>4, <1>5, <1>6

\* Those of the list that were not registered yet.
Left(r) == {c \in r.refs : r.value[c] # Unset}
LEMMA EnsureAllowPolicyNow ==
  ASSUME ControlInv, NEW a \in Changers, EnsureAllowPolicy(a)
  PROVE  LET r == task[a] IN
         /\ r.pc = "policy" /\ r.key = "defs" /\ r.value \in Defs /\ r.refs \subseteq CustomRefs
         /\ policies' = policies \union (r.refs \ Left(r))
         /\ UNCHANGED <<config, memory, changes, restarts, calm>>
         /\ Moved(a, "define", "defs", r.value, r.then, Left(r))
<1> DEFINE r == task[a]
           now == [r EXCEPT !.pc = "define", !.refs = Left(r)]
<1>1. r \in AnyTask /\ TaskRight(r) /\ r.pc = "policy" /\ r.key = "defs"
  BY TaskIs DEF EnsureAllowPolicy, At
<1>2. r.value \in Defs /\ r.refs \subseteq CustomRefs
  BY <1>1 DEF TaskRight
<1>3. /\ policies' = policies \union (r.refs \ Left(r))
      /\ UNCHANGED <<config, memory, changes, restarts, calm>>
      /\ task' = [task EXCEPT ![a].pc = "define", ![a].refs = Left(r)]
  BY DEF EnsureAllowPolicy, Left, Value
<1>4. task' = [task EXCEPT ![a] = now]
  BY <1>3, TaskIs
<1>5. Left(r) \subseteq CustomRefs
  BY <1>2 DEF Left
<1>6. /\ now.pc = "define" /\ now.key = "defs" /\ now.value = r.value
      /\ now.then = r.then /\ now.refs = Left(r) /\ now \in AnyTask
  BY <1>1, <1>5 DEF AnyTask, Pcs, Refs
<1> HIDE DEF now
<1>7. TaskRight(now)
  BY <1>1, <1>2, <1>5, <1>6 DEF TaskRight, Asking, Starting, Left
<1>8. Moved(a, "define", "defs", r.value, r.then, Left(r))
  BY <1>4, <1>6, <1>7 DEF Moved, Now
<1> QED
  BY <1>1, <1>2, <1>3, <1>8

LEMMA DefinedNow ==
  ASSUME ControlInv, NEW a \in Changers, Defined(a)
  PROVE  /\ task[a].pc = "define" /\ task[a].key = "defs" /\ task[a].refs = {} /\ Over(a)
         /\ UNCHANGED <<config, policies, memory, changes, restarts, calm>>
BY DEF Defined, At

LEMMA DropDefNow ==
  ASSUME ControlInv, NEW a \in Changers, DropDef(a)
  PROVE  /\ task[a].pc = "drop" /\ task[a].key = "defs" /\ Over(a)
         /\ UNCHANGED <<config, policies, client, tools, live, changes, restarts>>
         /\ \E c \in CustomRefs :
              /\ c \in task[a].refs
              /\ custom' = [custom EXCEPT ![c] = Unset]
              /\ registry' = [registry EXCEPT ![c] = Unset]
              /\ calm' = (calm /\ By(c) \in {"custom", "nobody"})
<1>1. task[a] \in AnyTask /\ TaskRight(task[a]) /\ task[a].pc = "drop" /\ task[a].key = "defs"
  BY TaskIs DEF DropDef, At
<1>2. task[a].refs \subseteq CustomRefs
  BY <1>1 DEF TaskRight
<1> QED
  BY <1>1, <1>2 DEF DropDef

\* The start-up's own steps.
LEMMA StartModelNow ==
  ASSUME ControlInv, StartModel
  PROVE  LET r == task[Startup] IN
         /\ r.pc = "start model" /\ r.key = "model" /\ live' = config["model"].value
         /\ UNCHANGED <<config, policies, registry, client, tools, custom, changes, restarts, calm>>
         /\ Moved(Startup, "start servers", "model", r.value, r.then, r.refs)
<1> DEFINE r == task[Startup]
<1>1. Startup \in Changers
  BY DEF Changers
<1>2. r \in AnyTask /\ TaskRight(r) /\ r.pc = "start model"
  BY <1>1, TaskIs DEF StartModel
<1>3. r.key = "model" /\ "start servers" \in Pcs
  BY <1>2 DEF TaskRight, Starting, Pcs
<1>4. MayGo(r, "start servers")
  BY <1>2, <1>3 DEF MayGo, TaskRight, Asking, Starting
<1>5. Moved(Startup, "start servers", r.key, r.value, r.then, r.refs)
  BY <1>1, <1>3, <1>4, GoesMoved DEF StartModel, ControlInv
<1> QED
  BY <1>2, <1>3, <1>5 DEF StartModel

LEMMA StartServersNow ==
  ASSUME ControlInv, StartServers
  PROVE  LET r == task[Startup]
             saved == config["servers"].value
             v == IF saved = Unset THEN EnvServer ELSE saved IN
         /\ r.pc = "start servers" /\ r.key = "model" /\ v \in Servers \union {Unset}
         /\ UNCHANGED <<config, policies, memory, changes, restarts, calm>>
         /\ v = Unset => Moved(Startup, "start defs", "model", r.value, r.then, r.refs)
         /\ v # Unset => Moved(Startup, "align", "servers", v, r.then, r.refs)
<1> DEFINE r == task[Startup]
           saved == config["servers"].value
           v == IF saved = Unset THEN EnvServer ELSE saved
<1>1. Startup \in Changers
  BY DEF Changers
<1>2. r \in AnyTask /\ TaskRight(r) /\ r.pc = "start servers"
  BY <1>1, TaskIs DEF StartServers
<1>3. r.key = "model" /\ r.refs = {}
  BY <1>2 DEF TaskRight, Starting
<1>4. v \in Servers \union {Unset}
  BY ConfigIs, ControlAssumption DEF ControlInv
<1>5. task' = [task EXCEPT ![Startup] = IF v = Unset
          THEN [@ EXCEPT !.pc = "start defs"]
          ELSE [@ EXCEPT !.pc = "align", !.key = "servers", !.value = v]]
      /\ UNCHANGED <<config, policies, memory, changes, restarts, calm>>
  BY DEF StartServers
<1> HIDE DEF v
<1>6. CASE v = Unset
  <2>1. Goes(Startup, "start defs") /\ "start defs" \in Pcs
    BY <1>1, <1>5, <1>6, TaskIs DEF Goes, Pcs
  <2>2. MayGo(r, "start defs")
    BY <1>2, <1>3 DEF MayGo, TaskRight, Asking, Starting
  <2>3. Moved(Startup, "start defs", r.key, r.value, r.then, r.refs)
    BY <1>1, <2>1, <2>2, GoesMoved DEF ControlInv
  <2> QED
    BY <1>2, <1>3, <1>4, <1>5, <1>6, <2>3 DEF v
<1>7. CASE v # Unset
  <2> DEFINE now == [r EXCEPT !.pc = "align", !.key = "servers", !.value = v]
  <2>1. task' = [task EXCEPT ![Startup] = now]
    BY <1>5, <1>7
  <2>2. /\ now.pc = "align" /\ now.key = "servers" /\ now.value = v
        /\ now.then = r.then /\ now.refs = r.refs /\ now \in AnyTask
    BY <1>2, <1>4 DEF AnyTask, AnyValue, Pcs
  <2> HIDE DEF now
  <2>3. TaskRight(now)
    BY <1>4, <2>2 DEF TaskRight, Asking, Starting
  <2>4. Moved(Startup, "align", "servers", v, r.then, r.refs)
    BY <2>1, <2>2, <2>3 DEF Moved, Now
  <2> QED
    BY <1>2, <1>3, <1>4, <1>5, <1>7, <2>4 DEF v
<1> QED
  BY <1>6, <1>7

LEMMA StartDefsNow ==
  ASSUME ControlInv, StartDefs
  PROVE  LET r == task[Startup] IN
         /\ r.pc = "start defs" /\ r.key = "model"
         /\ UNCHANGED <<config, policies, memory, changes, restarts, calm>>
         /\ Moved(Startup, "align", "defs", config["defs"].value, r.then, r.refs)
<1> DEFINE r == task[Startup]
           v == config["defs"].value
           now == [r EXCEPT !.pc = "align", !.key = "defs", !.value = v]
<1>1. Startup \in Changers
  BY DEF Changers
<1>2. r \in AnyTask /\ TaskRight(r) /\ r.pc = "start defs"
  BY <1>1, TaskIs DEF StartDefs
<1>3. r.key = "model" /\ r.refs = {}
  BY <1>2 DEF TaskRight, Starting
<1>4. v \in Defs
  BY ConfigIs DEF ControlInv
<1>5. task' = [task EXCEPT ![Startup] = now] /\ UNCHANGED <<config, policies, memory, changes, restarts, calm>>
  BY DEF StartDefs
<1> HIDE DEF v
<1>6. /\ now.pc = "align" /\ now.key = "defs" /\ now.value = v
      /\ now.then = r.then /\ now.refs = r.refs /\ now \in AnyTask
  BY <1>2, <1>4 DEF AnyTask, AnyValue, Pcs
<1> HIDE DEF now
<1>7. TaskRight(now)
  BY <1>3, <1>4, <1>6 DEF TaskRight, Asking, Starting
<1> QED
  BY <1>2, <1>3, <1>5, <1>6, <1>7 DEF Moved, Now, v

-----------------------------------------------------------------------------
(* Types, and the tools of the server are registered *)

LEMMA OverTask ==
  ASSUME TasksRight, NEW a \in Changers, Over(a)
  PROVE  TasksRight' /\ task'[a] = Done(a) /\ \A b \in Changers \ {a} : task'[b] = task[b]
BY OverNow, NowRight

LEMMA ConfiguredType ==
  ASSUME MemoryTypes, NEW m \in Models
  PROVE  Configured(m) \in Models
BY DEF MemoryTypes, Models, Configured

\* The rest stands, but for what is named.
Stays == UNCHANGED <<config, policies, changes, restarts>>
ToolsRight == MemoryTypes /\ ToolsAreRegistered
LEMMA FreshTypes ==
  /\ FreshRegistry \in [Refs -> Owner \union {Unset}]
  /\ NoDefs \in Defs /\ NoDefs \in [CustomRefs -> Codes \union {Unset}]
BY DEF FreshRegistry, Owner, NoDefs, Defs

LEMMA ServersTools ==
  ASSUME ToolsRight, tools # Unset
  PROVE  \A r \in tools : r \in ServerRefs /\ r \in Refs
BY DEF ToolsRight, MemoryTypes, Refs

LEMMA UnregisterTypes ==
  ASSUME ToolsRight, Unregister, UNCHANGED <<custom, live>>
  PROVE  ToolsRight'
<1>1. \A r \in Refs : IF tools # Unset /\ r \in tools THEN Unset \in Owner \union {Unset}
                      ELSE registry[r] \in Owner \union {Unset}
  BY DEF ToolsRight, MemoryTypes
<1>2. registry' \in [Refs -> Owner \union {Unset}]
  BY <1>1 DEF Unregister
<1>3. MemoryTypes'
  BY <1>2 DEF ToolsRight, MemoryTypes, Unregister
<1>4. ToolsAreRegistered'
  BY DEF ToolsAreRegistered, Unregister
<1> QED
  BY <1>3, <1>4 DEF ToolsRight

LEMMA RegistersTypes ==
  ASSUME ToolsRight, NEW v \in Servers, Registers(v), UNCHANGED <<client, custom, live>>
  PROVE  /\ tools' = tools => ToolsRight'
         /\ tools' = Free(v) => ToolsRight'
<1> DEFINE owner == [by |-> "server", of |-> v.url]
<1>1. owner \in Owner /\ owner.by = "server" /\ owner # Unset
  <2>1. v.url \in Urls
    BY DEF Servers
  <2>2. owner \in Owner /\ owner.by = "server"
    BY <2>1 DEF Owner
  <2> QED
    BY <2>2, ControlAssumption
<1>2. Free(v) \subseteq ServerRefs /\ Free(v) # Unset /\ ServerRefs \subseteq Refs
  BY FreeTools, ControlAssumption DEF Refs
<1>3. registry' = [r \in Refs |-> IF r \in Free(v) THEN owner ELSE registry[r]]
  BY DEF Registers
<1> HIDE DEF owner
<1>4. registry' \in [Refs -> Owner \union {Unset}]
  BY <1>1, <1>3 DEF ToolsRight, MemoryTypes
<1>5. \A r \in Refs : registry'[r] = IF r \in Free(v) THEN owner ELSE registry[r]
  BY <1>3
<1>6. \A r \in Refs : (r \in Free(v) \/ By(r) = "server") => By(r)' = "server"
  BY <1>1, <1>5 DEF By
<1>7. tools' = tools \/ tools' = Free(v) => MemoryTypes'
  BY <1>2, <1>4 DEF ToolsRight, MemoryTypes
<1>8. ASSUME tools' = tools
      PROVE  ToolsAreRegistered'
  BY <1>2, <1>6, <1>8, ServersTools DEF ToolsRight, ToolsAreRegistered
<1>9. ASSUME tools' = Free(v)
      PROVE  ToolsAreRegistered'
  BY <1>2, <1>6, <1>9 DEF ToolsAreRegistered
<1> QED
  BY <1>7, <1>8, <1>9 DEF ToolsRight

\* What custom tools do to the registry keeps the server's other tools.
LEMMA CustomTypes ==
  ASSUME ToolsRight, UNCHANGED <<client, tools, live>>,
         custom' \in [CustomRefs -> Codes \union {Unset}],
         registry' \in [Refs -> Owner \union {Unset}],
         \A r \in Refs \ CustomRefs : registry'[r] = registry[r]
  PROVE  ToolsRight'
<1>1. MemoryTypes'
  BY DEF ToolsRight, MemoryTypes
<1>3. \A r \in Refs \ CustomRefs : By(r)' = By(r)
  BY DEF By
<1>4. ToolsAreRegistered'
  BY <1>3, ServersTools DEF ToolsRight, ToolsAreRegistered
<1> QED
  BY <1>1, <1>4 DEF ToolsRight

LEMMA CodeType ==
  ASSUME NEW v \in Defs, NEW c \in CustomRefs
  PROVE  /\ CodeOf(v, c) \in Codes \union {Unset}
         /\ v[c] # Unset => /\ CodeOf(v, c) = Code(v[c]) /\ CodeOf(v, c) \in Codes
                            /\ [by |-> "custom", of |-> v[c]] \in Owner
         /\ CodeOf(v, c) = Unset <=> v[c] = Unset
<1>1. v[c] \in Definitions \union {Unset}
  BY DEF Defs
<1>2. v[c] # Unset => Code(v[c]) \in Codes
  BY <1>1 DEF Codes
<1>3. v[c] # Unset => [by |-> "custom", of |-> v[c]] \in Owner
  BY <1>1 DEF Owner
<1> QED
  BY <1>1, <1>2, <1>3, ControlAssumption DEF CodeOf

\* Each step of a request keeps the types, and the tools in the registry.
MemoryStays == UNCHANGED memory
LEMMA MemoryStaysRight ==
  ASSUME ToolsRight, UNCHANGED memory
  PROVE  ToolsRight'
BY DEF ToolsRight, MemoryTypes, ToolsAreRegistered, By, memory

StepInv == ControlInv /\ ToolsAreRegistered
LEMMA StepParts ==
  ASSUME StepInv
  PROVE  ControlInv /\ TasksRight /\ ToolsRight /\ ConfigTypes /\ CountTypes
BY DEF StepInv, ControlInv, ToolsRight
LEMMA StepWhole ==
  /\ TasksRight /\ ToolsRight /\ ConfigTypes /\ CountTypes => StepInv
  /\ TasksRight' /\ ToolsRight' /\ ConfigTypes' /\ CountTypes' => StepInv'
BY DEF StepInv, ControlInv, ToolsRight
LEMMA ConfigStays ==
  ASSUME ConfigTypes, UNCHANGED config
  PROVE  ConfigTypes'
BY DEF ConfigTypes
LEMMA CountStays ==
  ASSUME CountTypes, UNCHANGED <<changes, restarts>>, policies' = policies \/ policies' \subseteq Refs,
         calm' = calm \/ calm' \in BOOLEAN
  PROVE  CountTypes'
BY DEF CountTypes

LEMMA SavingRight ==
  ASSUME StepInv, NEW a \in Changers, GetSaved(a) \/ ReadVersion(a) \/ InsertVersion(a)
  PROVE  StepInv'
<1>1. ControlInv /\ TasksRight /\ ToolsRight /\ ConfigTypes /\ CountTypes
  BY StepParts
<1>2. UNCHANGED <<policies, memory, changes, restarts>>
  BY DEF GetSaved, ReadVersion, InsertVersion
<1>3. ToolsRight'
  BY <1>1, <1>2, MemoryStaysRight
<1>4. calm' = calm \/ calm' = FALSE
  BY DEF GetSaved, ReadVersion, InsertVersion, Fails
<1>5. CountTypes'
  BY <1>1, <1>2, <1>4, CountStays
<1>6. TasksRight' /\ ConfigTypes'
  <2>1. CASE GetSaved(a)
    <3>1. TasksRight'
      BY <1>1, <2>1, GetSavedNow, MovedTask
    <3>2. config' = config
      BY <2>1 DEF GetSaved
    <3> QED
      BY <1>1, <3>1, <3>2, ConfigStays
  <2>2. CASE ReadVersion(a)
    <3>1. TasksRight'
      BY <1>1, <2>2, ReadVersionNow, MovedTask
    <3>2. config' = config
      BY <2>2 DEF ReadVersion
    <3> QED
      BY <1>1, <3>1, <3>2, ConfigStays
  <2>3. CASE InsertVersion(a)
    <3> DEFINE r == task[a]
    <3>1. r \in AnyTask /\ TaskRight(r) /\ r.pc = "insert"
      BY <1>1, <2>3, TaskIs DEF InsertVersion
    <3>2. r.n \in Nat /\ r.key \in Settings /\ r.value \in Values[r.key]
      BY <3>1, SettingsAre DEF AnyTask, TaskRight, Asking
    <3>3. ASSUME config' = [config EXCEPT ![r.key] = [version |-> r.n, value |-> r.value]]
          PROVE  ConfigTypes'
      BY <1>1, <3>2, <3>3 DEF ConfigTypes
    <3>4. ASSUME config' = config PROVE ConfigTypes'
      BY <1>1, <3>4, ConfigStays
    <3>5. ConfigTypes'
      BY <1>1, <2>3, <3>3, <3>4, InsertNow
    <3>6. ASSUME Over(a) PROVE TasksRight'
      BY <1>1, <3>6, OverTask
    <3>7. ASSUME Moved(a, r.then, r.key, r.value, r.then, r.refs)
          PROVE  TasksRight'
      BY <1>1, <3>7, MovedTask
    <3>8. TasksRight'
      BY <1>1, <2>3, <3>6, <3>7, InsertNow DEF Fails
    <3> QED
      BY <3>5, <3>8
  <2> QED
    BY <2>1, <2>2, <2>3
<1> QED
  BY <1>3, <1>5, <1>6, StepWhole

LEMMA ServerRight ==
  ASSUME StepInv, NEW a \in Changers,
         AlignServers(a) \/ Connect(a) \/ ListTools(a) \/ EnsureAllowPolicies(a) \/ DropServer(a)
  PROVE  StepInv'
<1>1. ControlInv /\ TasksRight /\ ToolsRight /\ ConfigTypes /\ CountTypes
  BY StepParts
<1>2. UNCHANGED <<config, changes, restarts>>
  BY DEF AlignServers, Connect, ListTools, EnsureAllowPolicies, DropServer
<1>3. ConfigTypes'
  BY <1>1, <1>2, ConfigStays
<1>4. ASSUME Over(a) PROVE TasksRight'
  BY <1>1, <1>4, OverTask
<1>5. CASE AlignServers(a)
  <2> DEFINE v == task[a].value
  <2>1. TasksRight'
    BY <1>1, <1>4, <1>5, AlignServersNow, MovedTask
  <2>2. UNCHANGED <<policies, custom, live, calm>>
    BY <1>5 DEF AlignServers
  <2>3. Unregister \/ UNCHANGED <<registry, client, tools>>
    BY <1>5 DEF AlignServers
  <2>4. ToolsRight'
    BY <1>1, <2>2, <2>3, UnregisterTypes, MemoryStaysRight DEF memory
  <2>5. CountTypes'
    BY <1>1, <1>2, <2>2, CountStays
  <2> QED
    BY <1>3, <2>1, <2>4, <2>5, StepWhole
<1>6. CASE Connect(a)
  <2> DEFINE v == task[a].value
  <2>1. /\ v \in Servers
        /\ UNCHANGED <<policies, registry, tools, custom, live, changes, restarts>>
        /\ \/ client' = v.url /\ calm' = calm /\ Moved(a, "list", "servers", v, task[a].then, task[a].refs)
           \/ Over(a) /\ calm' = FALSE /\ client' = client
    BY <1>1, <1>6, ConnectNow DEF Fails
  <2>2. TasksRight'
    BY <1>1, <1>4, <2>1, MovedTask
  <2>3. client' \in Urls \union {Unset}
    BY <1>1, <2>1 DEF Servers, ToolsRight, MemoryTypes
  <2>4. ToolsRight'
    BY <1>1, <2>1, <2>3 DEF ToolsRight, MemoryTypes, ToolsAreRegistered, By
  <2>5. CountTypes'
    BY <1>1, <2>1, CountStays
  <2> QED
    BY <1>3, <2>2, <2>4, <2>5, StepWhole
<1>7. CASE ListTools(a)
  <2> DEFINE v == task[a].value
  <2>1. /\ v \in Servers
        /\ UNCHANGED <<policies, client, custom, live, changes, restarts>>
        /\ \/ Over(a) /\ calm' = FALSE /\ UNCHANGED <<registry, tools>>
           \/ Over(a) /\ calm' = FALSE /\ tools' = tools /\ Registers(v)
           \/ /\ Registers(v) /\ tools' = Free(v) /\ calm' = calm
              /\ Moved(a, "policy", "servers", v, task[a].then, Free(v))
    BY <1>1, <1>7, ListToolsNow DEF Fails
  <2>2. TasksRight'
    BY <1>1, <1>4, <2>1, MovedTask
  <2>3. ToolsRight'
    BY <1>1, <2>1, RegistersTypes, MemoryStaysRight DEF memory
  <2>4. CountTypes'
    BY <1>1, <2>1, CountStays
  <2> QED
    BY <1>3, <2>2, <2>3, <2>4, StepWhole
<1>8. CASE EnsureAllowPolicies(a)
  <2>1. /\ Over(a) /\ policies' = policies \union task[a].refs
        /\ UNCHANGED <<memory, changes, restarts, calm>>
    BY <1>1, <1>8, EnsureAllowPoliciesNow
  <2>2. policies' \subseteq Refs
    BY <1>1, <2>1, TaskIs DEF AnyTask, CountTypes
  <2>3. CountTypes'
    BY <1>1, <2>1, <2>2, CountStays
  <2>4. ToolsRight'
    BY <1>1, <2>1, MemoryStaysRight
  <2> QED
    BY <1>3, <1>4, <2>1, <2>3, <2>4, StepWhole
<1>9. CASE DropServer(a)
  <2>1. Over(a) /\ Unregister /\ UNCHANGED <<policies, custom, live, changes, restarts, calm>>
    BY <1>1, <1>9, DropServerNow
  <2>2. CountTypes'
    BY <1>1, <2>1, CountStays
  <2>3. ToolsRight'
    BY <1>1, <2>1, UnregisterTypes
  <2> QED
    BY <1>3, <1>4, <2>1, <2>2, <2>3, StepWhole
<1> QED
  BY <1>5, <1>6, <1>7, <1>8, <1>9

LEMMA CustomRight ==
  ASSUME StepInv, NEW a \in Changers,
         AlignDefs(a) \/ (\E c \in CustomRefs : Define(a, c)) \/ EnsureAllowPolicy(a)
         \/ Defined(a) \/ DropDef(a)
  PROVE  StepInv'
<1>1. ControlInv /\ TasksRight /\ ToolsRight /\ ConfigTypes /\ CountTypes
  BY StepParts
<1>2. UNCHANGED <<config, changes, restarts>>
  BY DEF AlignDefs, Define, EnsureAllowPolicy, Defined, DropDef
<1>3. ConfigTypes'
  BY <1>1, <1>2, ConfigStays
<1>4. ASSUME Over(a) PROVE TasksRight'
  BY <1>1, <1>4, OverTask
<1>5. registry \in [Refs -> Owner \union {Unset}] /\ custom \in [CustomRefs -> Codes \union {Unset}]
      /\ CustomRefs \subseteq Refs
  BY <1>1 DEF ToolsRight, MemoryTypes, Refs
<1>6. CASE AlignDefs(a)
  <2> DEFINE v == task[a].value
  <2>1. /\ custom' = [r \in CustomRefs |-> IF r \in Undefined(v) THEN Unset ELSE custom[r]]
        /\ registry' = [r \in Refs |-> IF r \in Undefined(v) THEN Unset ELSE registry[r]]
        /\ UNCHANGED <<policies, client, tools, live, changes, restarts, calm>>
        /\ Moved(a, "define", "defs", v, task[a].then, Defining(v))
    BY <1>1, <1>6, AlignDefsNow
  <2>2. Undefined(v) \subseteq CustomRefs
    BY DEF Undefined
  <2>3. registry' \in [Refs -> Owner \union {Unset}] /\ custom' \in [CustomRefs -> Codes \union {Unset}]
        /\ \A r \in Refs \ CustomRefs : registry'[r] = registry[r]
    BY <1>5, <2>1, <2>2
  <2>4. ToolsRight'
    BY <1>1, <2>1, <2>3, CustomTypes
  <2>5. CountTypes'
    BY <1>1, <2>1, CountStays
  <2>6. TasksRight'
    BY <1>1, <2>1, MovedTask
  <2> QED
    BY <1>3, <2>4, <2>5, <2>6, StepWhole
<1>7. ASSUME NEW c \in CustomRefs, Define(a, c)
      PROVE  StepInv'
  <2> DEFINE r == task[a]
  <2>1. /\ r.value \in Defs /\ UNCHANGED <<policies, client, tools, live, changes, restarts>>
        /\ \/ /\ UNCHANGED <<custom, registry, calm>>
              /\ Moved(a, "define", "defs", r.value, r.then, r.refs \ {c})
           \/ /\ Replaces(c, r.value) /\ calm' = calm
              /\ Moved(a, "policy", "defs", [r.value EXCEPT ![c] = Unset], r.then, r.refs)
           \/ /\ Refuses(c) /\ calm' = FALSE
              /\ Moved(a, "define", "defs", r.value, r.then, r.refs \ {c})
    BY <1>1, <1>7, DefineNow
  <2>2. TasksRight'
    BY <1>1, <2>1, MovedTask
  <2>3. CountTypes'
    BY <1>1, <2>1, CountStays
  <2>4. /\ CodeOf(r.value, c) \in Codes \union {Unset}
        /\ [by |-> "custom", of |-> r.value[c]] \in Owner
    <3>1. r.value \in Defs /\ r.value[c] # Unset
      BY <1>1, <1>7, DefineNow
    <3> QED
      BY <3>1, CodeType
  <2>5. ASSUME Replaces(c, r.value) \/ Refuses(c)
        PROVE  registry' \in [Refs -> Owner \union {Unset}] /\ custom' \in [CustomRefs -> Codes \union {Unset}]
               /\ \A d \in Refs \ CustomRefs : registry'[d] = registry[d]
    BY <1>5, <2>4, <2>5 DEF Replaces, Refuses
  <2>6. ToolsRight'
    BY <1>1, <2>1, <2>5, CustomTypes, MemoryStaysRight DEF memory
  <2> QED
    BY <1>3, <2>2, <2>3, <2>6, StepWhole
<1>8. CASE EnsureAllowPolicy(a)
  <2> DEFINE r == task[a]
  <2>1. /\ r.refs \subseteq CustomRefs /\ policies' = policies \union (r.refs \ Left(r))
        /\ UNCHANGED <<memory, changes, restarts, calm>>
        /\ Moved(a, "define", "defs", r.value, r.then, Left(r))
    BY <1>1, <1>8, EnsureAllowPolicyNow
  <2>2. policies' \subseteq Refs
    BY <1>1, <1>5, <2>1 DEF CountTypes
  <2>3. CountTypes'
    BY <1>1, <2>1, <2>2, CountStays
  <2>4. ToolsRight'
    BY <1>1, <2>1, MemoryStaysRight
  <2>5. TasksRight'
    BY <1>1, <2>1, MovedTask
  <2> QED
    BY <1>3, <2>3, <2>4, <2>5, StepWhole
<1>9. CASE Defined(a)
  <2>1. Over(a) /\ UNCHANGED <<policies, memory, changes, restarts, calm>>
    BY <1>1, <1>9, DefinedNow
  <2>2. CountTypes'
    BY <1>1, <2>1, CountStays
  <2>3. ToolsRight'
    BY <1>1, <2>1, MemoryStaysRight
  <2> QED
    BY <1>3, <1>4, <2>1, <2>2, <2>3, StepWhole
<1>10. CASE DropDef(a)
  <2>1. Over(a) /\ UNCHANGED <<policies, client, tools, live, changes, restarts>>
    BY <1>1, <1>10, DropDefNow
  <2>2. PICK c \in CustomRefs :
          /\ custom' = [custom EXCEPT ![c] = Unset]
          /\ registry' = [registry EXCEPT ![c] = Unset]
          /\ calm' = (calm /\ By(c) \in {"custom", "nobody"})
    BY <1>1, <1>10, DropDefNow
  <2>3. calm' \in BOOLEAN
    BY <2>2
  <2>4. CountTypes'
    BY <1>1, <2>1, <2>3, CountStays
  <2>5. registry' \in [Refs -> Owner \union {Unset}] /\ custom' \in [CustomRefs -> Codes \union {Unset}]
        /\ \A r \in Refs \ CustomRefs : registry'[r] = registry[r]
    BY <1>5, <2>2
  <2>6. ToolsRight'
    BY <1>1, <2>1, <2>5, CustomTypes
  <2> QED
    BY <1>3, <1>4, <2>1, <2>4, <2>6, StepWhole
<1> QED
  BY <1>6, <1>7, <1>8, <1>9, <1>10

LEMMA StartRight ==
  ASSUME StepInv, StartModel \/ StartServers \/ StartDefs
  PROVE  StepInv'
<1>1. ControlInv /\ TasksRight /\ ToolsRight /\ ConfigTypes /\ CountTypes /\ Startup \in Changers
  BY StepParts DEF Changers
<1>2. UNCHANGED <<config, policies, registry, client, tools, custom, changes, restarts, calm>>
  BY DEF StartModel, StartServers, StartDefs, memory
<1>3. ConfigTypes' /\ CountTypes'
  BY <1>1, <1>2, ConfigStays, CountStays
<1>4. live' \in Models \union {Unset}
  BY <1>1, ConfigIs DEF StartModel, StartServers, StartDefs, memory, ToolsRight, MemoryTypes
<1>5. ToolsRight'
  BY <1>1, <1>2, <1>4 DEF ToolsRight, MemoryTypes, ToolsAreRegistered, By
<1>6. TasksRight'
  <2>1. CASE StartModel
    BY <1>1, <2>1, StartModelNow, MovedTask
  <2>2. CASE StartServers
    <3> DEFINE v == IF config["servers"].value = Unset THEN EnvServer ELSE config["servers"].value
    <3>1. v = Unset => Moved(Startup, "start defs", "model", task[Startup].value, task[Startup].then, task[Startup].refs)
      BY <1>1, <2>2, StartServersNow
    <3>2. v # Unset => Moved(Startup, "align", "servers", v, task[Startup].then, task[Startup].refs)
      BY <1>1, <2>2, StartServersNow
    <3> HIDE DEF v
    <3> QED
      BY <1>1, <3>1, <3>2, MovedTask
  <2>3. CASE StartDefs
    BY <1>1, <2>3, StartDefsNow, MovedTask
  <2> QED
    BY <2>1, <2>2, <2>3
<1> QED
  BY <1>3, <1>5, <1>6, StepWhole

LEMMA RestartRight ==
  ASSUME StepInv, Restart
  PROVE  StepInv'
<1>1. ControlInv /\ TasksRight /\ ToolsRight /\ ConfigTypes /\ CountTypes
  BY StepParts
<1>2. ConfigTypes'
  BY <1>1, ConfigStays DEF Restart
<1>3. CountTypes'
  <2>1. calm' \in BOOLEAN /\ policies' = policies /\ changes' = changes
        /\ restarts < MaxRestarts /\ restarts' = restarts + 1
    BY DEF Restart
  <2>2. restarts' \in 0 .. MaxRestarts
    BY <1>1, <2>1, ControlAssumption DEF CountTypes
  <2> QED
    BY <1>1, <2>1, <2>2 DEF CountTypes
<1>4. ToolsRight'
  BY FreshTypes DEF Restart, ToolsRight, MemoryTypes, ToolsAreRegistered
<1>5. TasksRight'
  <2> DEFINE start == [NoTask EXCEPT !.pc = "start model"]
  <2>1. start \in AnyTask /\ TaskRight(start) /\ NoTask \in AnyTask /\ TaskRight(NoTask)
    BY NoTaskType DEF Starting
  <2>2. task' = [a \in Changers |-> IF a = Startup THEN start ELSE NoTask]
    BY DEF Restart
  <2> HIDE DEF start
  <2> QED
    BY <2>1, <2>2 DEF TasksRight
<1> QED
  BY <1>2, <1>3, <1>4, <1>5, StepWhole

LEMMA AskKeeps ==
  ASSUME StepInv, NEW a \in Changers, AskChange(a)
  PROVE  StepInv'
<1>1. ControlInv /\ TasksRight /\ ToolsRight /\ ConfigTypes /\ CountTypes
  BY StepParts
<1>2. AskedOf(a) /\ AskRest
  BY <1>1, AskNow
<1>3. PICK now : /\ Now(a, now) /\ AskRight(now.pc, now.key, now.value, now.then)
                 /\ now.key = "model" => live' = Configured(now.value)
                 /\ now.key # "model" => live' = live
  BY <1>2 DEF AskedOf
<1>4. TasksRight'
  BY <1>1, <1>3, NowRight
<1>5. live' \in Models \union {Unset}
  BY <1>1, <1>3, ConfiguredType DEF AskRight, ToolsRight, MemoryTypes
<1>6. ToolsRight'
  BY <1>1, <1>2, <1>5 DEF AskRest, ToolsRight, MemoryTypes, ToolsAreRegistered, By
<1>7. ConfigTypes'
  BY <1>1, <1>2, ConfigStays DEF AskRest
<1>8. CountTypes'
  BY <1>1, <1>2, ControlAssumption DEF AskRest, CountTypes
<1> QED
  BY <1>4, <1>6, <1>7, <1>8, StepWhole

LEMMA ControlInitRight == ControlInit => StepInv
<1> SUFFICES ASSUME ControlInit PROVE StepInv
  OBVIOUS
<1>1. TasksRight
  BY NoTaskType DEF ControlInit, TasksRight
<1>2. ToolsRight
  BY FreshTypes DEF ControlInit, ToolsRight, MemoryTypes, ToolsAreRegistered
<1>3. ConfigTypes
  <2>1. \A k \in Settings : /\ config[k].version = 0 /\ config[k].value = IF k = "defs" THEN NoDefs ELSE Unset
                            /\ config[k] = [version |-> 0, value |-> IF k = "defs" THEN NoDefs ELSE Unset]
    BY DEF ControlInit
  <2>2. \A k \in Settings : config[k].value \in Values[k]
    BY <2>1, SettingsAre, FreshTypes
  <2>3. config = [k \in Settings |-> [version |-> 0, value |-> config[k].value]]
    BY <2>1 DEF ControlInit
  <2> QED
    BY <2>2, <2>3 DEF ConfigTypes
<1>4. CountTypes
  BY ControlAssumption DEF ControlInit, CountTypes
<1> QED
  BY <1>1, <1>2, <1>3, <1>4, StepWhole

LEMMA ControlNextRight == StepInv /\ [ControlNext]_controlVars => StepInv'
<1> SUFFICES ASSUME StepInv, [ControlNext]_controlVars PROVE StepInv'
  OBVIOUS
<1>1. ASSUME NEW a \in Admins, AskChange(a) PROVE StepInv'
  BY <1>1, AskKeeps DEF Changers
<1>2. ASSUME NEW a \in Changers, Step(a) PROVE StepInv'
  BY <1>2, SavingRight, ServerRight, CustomRight DEF Step
<1>3. CASE UNCHANGED controlVars
  <2>1. ControlInv /\ TasksRight /\ ToolsRight /\ ConfigTypes /\ CountTypes
    BY StepParts
  <2>2. TasksRight' /\ ConfigTypes' /\ CountTypes'
    BY <1>3, <2>1, ConfigStays, CountStays DEF controlVars, TasksRight
  <2>3. ToolsRight'
    BY <1>3, <2>1, MemoryStaysRight DEF controlVars
  <2> QED
    BY <2>2, <2>3, StepWhole
<1> QED
  BY <1>1, <1>2, <1>3, RestartRight, StartRight DEF ControlNext

\* Every variable of ControlPlane has its type, whatever requests overlap,
\* fail or are cut by a restart.
THEOREM ControlTypeCorrect == ControlSpec => []ControlTypeOK
<1>1. StepInv => ControlTypeOK
  BY SettingsAre DEF StepInv, ControlInv, TasksRight, AnyTask, MemoryTypes, ConfigTypes, CountTypes, ControlTypeOK
<1> QED
  BY <1>1, ControlInitRight, ControlNextRight, PTL DEF ControlSpec

\* What McpManager.list reports as registered can be called (register_mcp_tools,
\* unregister, and every other registration by the custom tools in between).
THEOREM ToolsAlwaysRegistered == ControlSpec => []ToolsAreRegistered
<1>1. StepInv => ToolsAreRegistered
  BY DEF StepInv
<1> QED
  BY <1>1, ControlInitRight, ControlNextRight, PTL DEF ControlSpec

-----------------------------------------------------------------------------
(* What is configured is what is used *)

\* The saved values.
SavedServer == config["servers"].value
SavedDefs == config["defs"].value
SavedModel == config["model"].value

\* The registry is what the two managers have in their lists.
RegistryFits ==
  /\ \A r \in Refs : By(r) = "server" <=> tools # Unset /\ r \in tools
  /\ tools # Unset => client # Unset /\ \A r \in tools : registry[r].of = client
  /\ \A c \in CustomRefs :
       /\ custom[c] = Unset => By(c) # "custom"
       /\ custom[c] # Unset => By(c) = "custom" /\ Code(registry[c].of) = custom[c]

\* The server's tools are those of the saved server, but on the way there.
ServersDone(r) ==
  /\ r.pc \notin {"connect", "list", "start model", "start servers"}
  /\ ~(r.key = "servers" /\ r.pc \in {"align", "drop"})
ServersSettled ==
  /\ On(SavedServer) => tools # Unset /\ client = SavedServer.url
  /\ ~On(SavedServer) => tools = Unset
ServersFit(r) ==
  /\ client # Unset /\ r.pc # "list" => tools # Unset
  /\ r.pc \in {"start model", "start servers"} => tools = Unset
  /\ r.key = "servers" /\ r.pc \in Asking /\ r.then = "drop" => r.value = Unset
  /\ r.key = "servers" /\ r.pc = "align" =>
       SavedServer = r.value \/ (SavedServer = Unset /\ ~On(r.value))
  /\ r.pc \in {"connect", "list"} => SavedServer = r.value /\ tools = Unset
  /\ r.pc = "list" => client = r.value.url
  /\ r.key = "servers" /\ r.pc = "drop" => SavedServer = Unset
  /\ ServersDone(r) => ServersSettled

\* So are the custom tools, but those a request still has before it.
Registered(S) == \A c \in S : custom[c] = CodeOf(SavedDefs, c)
Defines(r, S) == \A c \in S : SavedDefs[c] # Unset /\ r.value[c] = SavedDefs[c]
DefsDone(a) ==
  /\ ~(task[a].key = "defs" /\ task[a].pc \in {"align", "define", "policy", "drop"})
  /\ ~(a = Startup /\ (task[a].pc \in Starting \/ task[a].key = "servers"))
DefsFit(a) ==
  LET r == task[a] IN
  /\ r.key = "defs" /\ r.pc = "align" => r.value = SavedDefs
  /\ r.pc = "define" => Defines(r, r.refs) /\ Registered(CustomRefs \ r.refs)
  /\ r.key = "defs" /\ r.pc = "policy" =>
       Defines(r, Left(r)) /\ Registered(CustomRefs \ Left(r))
  /\ r.key = "defs" /\ r.pc = "drop" => \E c \in CustomRefs :
       r.refs = {c} /\ SavedDefs[c] = Unset /\ Registered(CustomRefs \ {c})
  /\ r.key = "defs" /\ r.pc \in {"read", "insert"} /\ r.then = "drop" => \E c \in CustomRefs :
       r.refs = {c} /\ r.value = [SavedDefs EXCEPT ![c] = Unset]
  /\ DefsDone(a) => Registered(CustomRefs)

\* The gateway is ahead of what is saved while it is being saved.
ModelFits(r) ==
  /\ r.key = "model" /\ r.pc = "get" => live = [r.value EXCEPT !.key = SavedKey(SavedModel)]
  /\ r.key = "model" /\ r.pc \in {"read", "insert"} => live = r.value
  /\ ~(r.key = "model" /\ r.pc \in Asking) /\ r.pc # "start model" => live = SavedModel

\* What is registered is allowed, or is next.
AllowedNext(r, c) == r.pc = "policy" /\ c \in r.refs /\ (r.key = "defs" => r.value[c] = Unset)
PoliciesFit(r) ==
  \A c \in Refs : By(c) \in {"server", "custom"} => c \in policies \/ AllowedNext(r, c)

Fits(a) == ServersFit(task[a]) /\ DefsFit(a) /\ ModelFits(task[a]) /\ PoliciesFit(task[a])
Alone(a) == \A b \in Changers \ {a} : task[b] = NoTask
AlignInv == calm => RegistryFits /\ \E a \in Changers : Alone(a) /\ Fits(a)

LEMMA ByIs ==
  ASSUME ToolsRight, NEW r \in Refs
  PROVE  /\ registry[r] = Unset <=> By(r) = "nobody"
         /\ registry[r] # Unset => By(r) = registry[r].by
         /\ By(r) = "server" => registry[r].of \in Urls
<1>1. registry[r] \in Owner \union {Unset}
  BY DEF ToolsRight, MemoryTypes
<1>2. registry[r] # Unset => registry[r].by \in {"builtin", "server", "custom"}
                             /\ (registry[r].by = "server" => registry[r].of \in Urls)
  BY <1>1 DEF Owner
<1> QED
  BY <1>2 DEF By
LEMMA ByStays ==
  ASSUME NEW r \in Refs
  PROVE  /\ registry'[r] = registry[r] => By(r)' = By(r)
         /\ registry'[r] = Unset => By(r)' = "nobody"
BY DEF By

LEMMA RegistryStays ==
  ASSUME RegistryFits, UNCHANGED <<registry, client, tools, custom>>
  PROVE  RegistryFits'
BY DEF RegistryFits, By
LEMMA PoliciesStay ==
  ASSUME NEW a \in Changers, PoliciesFit(task[a]), task[a].pc # "policy", policies' = policies,
         \A c \in Refs : registry'[c] = registry[c] \/ registry'[c] = Unset
  PROVE  PoliciesFit(task[a])'
<1>1. \A c \in Refs : By(c)' \in {"server", "custom"} => By(c) \in {"server", "custom"}
  BY ByStays
<1> QED
  BY <1>1 DEF PoliciesFit, AllowedNext
LEMMA ServersStay ==
  ASSUME NEW a \in Changers, ServersFit(task[a]), ServersDone(task[a]), ServersDone(task[a])',
         task'[a].key # "servers", UNCHANGED <<client, tools>>, SavedServer' = SavedServer
  PROVE  ServersFit(task[a])'
<1>1. ServersSettled'
  BY DEF ServersFit, ServersSettled
<1>2. task'[a].pc \notin {"connect", "list", "start model", "start servers"}
  BY DEF ServersDone
<1>3. client # Unset => tools # Unset
  BY DEF ServersFit, ServersDone
<1> QED
  BY <1>1, <1>2, <1>3 DEF ServersFit
LEMMA DefsStay ==
  ASSUME NEW a \in Changers, DefsFit(a), DefsDone(a)' => DefsDone(a), TaskRight(task[a])',
         task'[a].key # "defs", custom' = custom, SavedDefs' = SavedDefs
  PROVE  DefsFit(a)'
<1>1. task'[a].pc # "define"
  BY DEF TaskRight
<1>2. DefsDone(a)' => Registered(CustomRefs)'
  BY DEF DefsFit, Registered
<1> QED
  BY <1>1, <1>2 DEF DefsFit
LEMMA ModelStays ==
  ASSUME NEW a \in Changers, ModelFits(task[a]), task[a].pc # "start model",
         ~(task[a].key = "model" /\ task[a].pc \in Asking),
         ~(task'[a].key = "model" /\ task'[a].pc \in Asking), live' = live, SavedModel' = SavedModel
  PROVE  ModelFits(task[a])'
BY DEF ModelFits, Asking

\* The lone request, or the start-up, keeps all this in step.
Working(a) == StepInv /\ RegistryFits /\ Fits(a)
LEMMA WorkingIs ==
  ASSUME NEW a \in Changers, Working(a)
  PROVE  /\ ControlInv /\ TasksRight /\ ToolsRight /\ RegistryFits /\ task[a] \in AnyTask /\ TaskRight(task[a])
         /\ ServersFit(task[a]) /\ DefsFit(a) /\ ModelFits(task[a]) /\ PoliciesFit(task[a])
BY StepParts, TaskIs DEF Working, Fits
LEMMA SavedIs ==
  ASSUME UNCHANGED config
  PROVE  SavedServer' = SavedServer /\ SavedDefs' = SavedDefs /\ SavedModel' = SavedModel
BY DEF SavedServer, SavedDefs, SavedModel
LEMMA SavedTypes ==
  ASSUME ControlInv
  PROVE  SavedServer \in Servers \union {Unset} /\ SavedDefs \in Defs /\ SavedModel \in Models \union {Unset}
BY ConfigIs DEF ControlInv, SavedServer, SavedDefs, SavedModel
LEMMA FitsNext ==
  ASSUME NEW a \in Changers,
         ServersFit(task[a])', DefsFit(a)', ModelFits(task[a])', PoliciesFit(task[a])'
  PROVE  Fits(a)'
BY DEF Fits

LEMMA GetSavedFits ==
  ASSUME NEW a \in Changers, Working(a), GetSaved(a)
  PROVE  RegistryFits' /\ Fits(a)'
<1> DEFINE r == task[a]
<1>1. /\ ControlInv /\ TasksRight /\ ToolsRight /\ RegistryFits /\ TaskRight(r)
      /\ ServersFit(r) /\ DefsFit(a) /\ ModelFits(r) /\ PoliciesFit(r)
  BY WorkingIs
<1>2. UNCHANGED <<config, policies, memory>> /\ r.pc = "get" /\ r.key \in {"defs", "model"}
  BY <1>1, GetSavedNow DEF GetSaved
<1>3. UNCHANGED <<registry, client, tools, custom, live>>
      /\ SavedServer' = SavedServer /\ SavedDefs' = SavedDefs /\ SavedModel' = SavedModel
  BY <1>2, SavedIs DEF memory
<1>4. RegistryFits'
  BY <1>1, <1>3, RegistryStays
<1>5. CASE r.key = "defs"
  <2>1. Moved(a, "read", "defs", [SavedDefs EXCEPT ![r.value] = Unset], "drop", {r.value})
    BY <1>1, <1>5, GetSavedNow DEF SavedDefs
  <2>2. /\ TaskRight(task[a])' /\ task'[a].pc = "read" /\ task'[a].key = "defs"
        /\ task'[a].value = [SavedDefs EXCEPT ![r.value] = Unset] /\ task'[a].refs = {r.value}
    BY <1>1, <2>1, MovedTask
  <2>3. r.value \in CustomRefs
    BY <1>1, <1>2, <1>5 DEF TaskRight
  <2>4. ServersFit(task[a])'
    BY <1>1, <1>2, <1>3, <1>5, <2>2, ServersStay DEF ServersDone
  <2>5. ModelFits(task[a])'
    BY <1>1, <1>2, <1>3, <1>5, <2>2, ModelStays
  <2>6. PoliciesFit(task[a])'
    BY <1>1, <1>2, <1>3, PoliciesStay
  <2>7. Registered(CustomRefs)'
    BY <1>1, <1>2, <1>3, <1>5 DEF DefsFit, DefsDone, Starting, Registered
  <2>8. DefsFit(a)'
    BY <1>3, <2>2, <2>3, <2>7 DEF DefsFit
  <2> QED
    BY <1>4, <2>4, <2>5, <2>6, <2>8, FitsNext
<1>6. CASE r.key = "model"
  <2>1. Moved(a, "read", "model", [r.value EXCEPT !.key = SavedKey(SavedModel)], "over", r.refs)
    BY <1>1, <1>6, GetSavedNow DEF SavedModel
  <2>2. /\ TaskRight(task[a])' /\ task'[a].pc = "read" /\ task'[a].key = "model"
        /\ task'[a].value = [r.value EXCEPT !.key = SavedKey(SavedModel)]
    BY <1>1, <2>1, MovedTask
  <2>3. ServersFit(task[a])'
    BY <1>1, <1>2, <1>3, <1>6, <2>2, ServersStay DEF ServersDone
  <2>4. ModelFits(task[a])'
    BY <1>1, <1>2, <1>3, <1>6, <2>2 DEF ModelFits, Asking
  <2>5. PoliciesFit(task[a])'
    BY <1>1, <1>2, <1>3, PoliciesStay
  <2>6. DefsFit(a)'
    BY <1>1, <1>2, <1>3, <1>6, <2>2, DefsStay DEF DefsDone, Starting
  <2> QED
    BY <1>4, <2>3, <2>4, <2>5, <2>6, FitsNext
<1> QED
  BY <1>2, <1>5, <1>6

LEMMA ReadVersionFits ==
  ASSUME NEW a \in Changers, Working(a), ReadVersion(a)
  PROVE  RegistryFits' /\ Fits(a)'
<1> DEFINE r == task[a]
<1>1. /\ ControlInv /\ TasksRight /\ ToolsRight /\ RegistryFits /\ TaskRight(r)
      /\ ServersFit(r) /\ DefsFit(a) /\ ModelFits(r) /\ PoliciesFit(r)
  BY WorkingIs
<1>2. UNCHANGED <<config, policies, memory>> /\ r.pc = "read"
  BY DEF ReadVersion
<1>3. UNCHANGED <<registry, client, tools, custom, live>>
      /\ SavedServer' = SavedServer /\ SavedDefs' = SavedDefs /\ SavedModel' = SavedModel
  BY <1>2, SavedIs DEF memory
<1>4. RegistryFits'
  BY <1>1, <1>3, RegistryStays
<1>5. /\ task'[a].pc = "insert" /\ task'[a].key = r.key /\ task'[a].value = r.value
      /\ task'[a].then = r.then /\ task'[a].refs = r.refs
  BY <1>1, ReadVersionNow, MovedTask
<1>6. ServersFit(task[a])'
  BY <1>1, <1>2, <1>3, <1>5 DEF ServersFit, ServersDone, ServersSettled, Asking
<1>7. ModelFits(task[a])'
  BY <1>1, <1>2, <1>3, <1>5 DEF ModelFits, Asking
<1>8. PoliciesFit(task[a])'
  BY <1>1, <1>2, <1>3, PoliciesStay
<1>9. DefsFit(a)'
  <2>1. r.key = "defs" /\ r.then = "drop" => \E c \in CustomRefs :
          r.refs = {c} /\ r.value = [SavedDefs EXCEPT ![c] = Unset]
    BY <1>1, <1>2 DEF DefsFit
  <2>2. DefsDone(a)' => Registered(CustomRefs)'
    BY <1>1, <1>2, <1>3, <1>5 DEF DefsFit, DefsDone, Starting, Registered
  <2> QED
    BY <1>3, <1>5, <2>1, <2>2 DEF DefsFit
<1> QED
  BY <1>4, <1>6, <1>7, <1>8, <1>9, FitsNext

\* A saved value is there, the others stand.
LEMMA InsertedIs ==
  ASSUME ConfigTypes, NEW k \in Settings, NEW n, NEW v,
         config' = [config EXCEPT ![k] = [version |-> n, value |-> v]]
  PROVE  /\ SavedServer' = IF k = "servers" THEN v ELSE SavedServer
         /\ SavedDefs' = IF k = "defs" THEN v ELSE SavedDefs
         /\ SavedModel' = IF k = "model" THEN v ELSE SavedModel
<1>1. \A j \in Settings : config'[j].value = IF j = k THEN v ELSE config[j].value
  BY DEF ConfigTypes
<1> QED
  BY <1>1, SettingsAre DEF SavedServer, SavedDefs, SavedModel

LEMMA DoneIs ==
  ASSUME TasksRight, NEW a \in Changers, Over(a)
  PROVE  /\ TaskRight(task[a])' /\ task'[a].key = "model" /\ task'[a].pc \in {"idle", "start defs"}
         /\ task'[a].pc = "start defs" <=> a = Startup /\ task[a].key = "servers"
<1>1. TasksRight' /\ task'[a] = Done(a)
  BY OverTask
<1>2. TaskRight(task[a])'
  BY <1>1 DEF TasksRight
<1>3. CASE a = Startup /\ task[a].key = "servers"
  BY <1>1, <1>2, <1>3, NoTaskType DEF Done, Starting
<1>4. CASE ~(a = Startup /\ task[a].key = "servers")
  BY <1>1, <1>2, <1>4, NoTaskType DEF Done
<1> QED
  BY <1>3, <1>4

LEMMA InsertVersionFits ==
  ASSUME NEW a \in Changers, Working(a), InsertVersion(a), calm'
  PROVE  RegistryFits' /\ Fits(a)'
<1> DEFINE r == task[a]
<1>1. /\ ControlInv /\ TasksRight /\ ToolsRight /\ RegistryFits /\ TaskRight(r)
      /\ ServersFit(r) /\ DefsFit(a) /\ ModelFits(r) /\ PoliciesFit(r) /\ r \in AnyTask
  BY WorkingIs
<1>2. /\ r.pc = "insert" /\ UNCHANGED <<policies, memory>>
      /\ config' = [config EXCEPT ![r.key] = [version |-> r.n, value |-> r.value]]
      /\ r.then = "over" => r.key = "model" /\ Over(a)
      /\ r.then # "over" => /\ r.key # "model" /\ r.then \in {"align", "drop"}
                            /\ Moved(a, r.then, r.key, r.value, r.then, r.refs)
  BY <1>1, InsertNow DEF Fails
<1>3. UNCHANGED <<registry, client, tools, custom, live>>
  BY <1>2 DEF memory
<1>4. RegistryFits'
  BY <1>1, <1>3, RegistryStays
<1>5. /\ SavedServer' = IF r.key = "servers" THEN r.value ELSE SavedServer
      /\ SavedDefs' = IF r.key = "defs" THEN r.value ELSE SavedDefs
      /\ SavedModel' = IF r.key = "model" THEN r.value ELSE SavedModel
  <2>1. ConfigTypes /\ r.key \in Settings
    BY <1>1, SettingsAre DEF ControlInv, AnyTask
  <2> QED
    BY <1>2, <2>1, InsertedIs
<1>6. PoliciesFit(task[a])'
  BY <1>1, <1>2, <1>3, PoliciesStay
<1>7. CASE r.then = "over"
  <2>1. r.key = "model" /\ task'[a].key = "model" /\ task'[a].pc = "idle" /\ TaskRight(task[a])'
    BY <1>1, <1>2, <1>7, DoneIs
  <2>2. ServersFit(task[a])'
    BY <1>1, <1>2, <1>3, <1>5, <2>1, ServersStay DEF ServersDone
  <2>3. DefsFit(a)'
    BY <1>1, <1>2, <1>3, <1>5, <2>1, DefsStay DEF DefsDone, Starting
  <2>4. ModelFits(task[a])'
    BY <1>1, <1>2, <1>3, <1>5, <2>1 DEF ModelFits, Asking
  <2> QED
    BY <1>4, <1>6, <2>2, <2>3, <2>4, FitsNext
<1>8. CASE r.then # "over"
  <2>1. /\ TaskRight(task[a])' /\ r.key # "model" /\ r.then \in {"align", "drop"}
        /\ task'[a].pc = r.then /\ task'[a].key = r.key /\ task'[a].value = r.value
        /\ task'[a].then = r.then /\ task'[a].refs = r.refs
    BY <1>1, <1>2, <1>8, MovedTask
  <2>2. ModelFits(task[a])'
    BY <1>1, <1>2, <1>3, <1>5, <2>1, ModelStays DEF Asking
  <2>3. CASE r.key = "servers"
    <3>1. DefsFit(a)'
      BY <1>1, <1>2, <1>3, <1>5, <2>1, <2>3, DefsStay DEF DefsDone, Starting
    <3>2. ServersFit(task[a])'
      BY <1>1, <1>2, <1>3, <1>5, <2>1, <2>3 DEF ServersFit, ServersDone, Asking
    <3> QED
      BY <1>4, <1>6, <2>2, <3>1, <3>2, FitsNext
  <2>4. CASE r.key = "defs"
    <3>1. ServersFit(task[a])'
      BY <1>1, <1>2, <1>3, <1>5, <2>1, <2>4, ServersStay DEF ServersDone
    <3>2. SavedDefs' = r.value
      BY <1>5, <2>4
    <3>3. ASSUME r.then = "drop"
          PROVE  \E c \in CustomRefs : r.refs = {c} /\ SavedDefs'[c] = Unset /\ Registered(CustomRefs \ {c})'
      <4>1. PICK c \in CustomRefs : r.refs = {c} /\ r.value = [SavedDefs EXCEPT ![c] = Unset]
        BY <1>1, <1>2, <2>4, <3>3 DEF DefsFit
      <4>2. SavedDefs \in Defs
        BY <1>1, SavedTypes
      <4>3. Registered(CustomRefs)
        BY <1>1, <1>2, <2>4 DEF DefsFit, DefsDone, Starting
      <4>4. SavedDefs'[c] = Unset /\ \A d \in CustomRefs \ {c} : SavedDefs'[d] = SavedDefs[d]
        BY <3>2, <4>1, <4>2 DEF Defs
      <4>5. Registered(CustomRefs \ {c})'
        BY <1>3, <4>3, <4>4 DEF Registered, CodeOf
      <4> QED
        BY <4>1, <4>4, <4>5
    <3>4. DefsFit(a)'
      BY <2>1, <2>4, <3>2, <3>3 DEF DefsFit, DefsDone
    <3> QED
      BY <1>4, <1>6, <2>2, <3>1, <3>4, FitsNext
  <2> QED
    BY <1>1, <2>1, <2>3, <2>4 DEF AnyTask
<1> QED
  BY <1>7, <1>8

-----------------------------------------------------------------------------
\* The manager of the server.
LEMMA UnregisterFits ==
  ASSUME ToolsRight, RegistryFits, Unregister, custom' = custom
  PROVE  RegistryFits' /\ \A c \in Refs : registry'[c] = registry[c] \/ registry'[c] = Unset
<1>1. /\ \A r \in Refs : registry'[r] = IF tools # Unset /\ r \in tools THEN Unset ELSE registry[r]
      /\ tools' = Unset /\ client' = Unset
  BY DEF Unregister
<1>2. \A r \in Refs : By(r)' = IF tools # Unset /\ r \in tools THEN "nobody" ELSE By(r)
  BY <1>1, ByStays
<1>3. \A r \in Refs : By(r)' # "server"
  BY <1>2 DEF RegistryFits
<1>4. CustomRefs \subseteq Refs
  BY DEF Refs
<1>5. ASSUME NEW c \in CustomRefs
      PROVE  /\ custom[c] = Unset => By(c)' # "custom"
             /\ custom[c] # Unset => By(c)' = "custom" /\ Code(registry'[c].of) = custom[c]
  BY <1>1, <1>2, <1>4 DEF RegistryFits
<1>6. RegistryFits'
  BY <1>1, <1>3, <1>5 DEF RegistryFits
<1> QED
  BY <1>1, <1>6

\* A request about the server is over.
LEMMA ServerOver ==
  ASSUME NEW a \in Changers, Working(a), Over(a), task[a].key = "servers", task[a].pc \notin Asking,
         UNCHANGED <<config, custom, live>>, ServersSettled', client' # Unset => tools' # Unset
  PROVE  ServersFit(task[a])' /\ DefsFit(a)' /\ ModelFits(task[a])'
<1> DEFINE r == task[a]
<1>1. TasksRight /\ TaskRight(r) /\ DefsFit(a) /\ ModelFits(r)
  BY WorkingIs
<1>2. /\ TaskRight(task[a])' /\ task'[a].key = "model" /\ task'[a].pc \in {"idle", "start defs"}
      /\ task'[a].pc = "start defs" <=> a = Startup
  BY <1>1, DoneIs
<1>3. SavedServer' = SavedServer /\ SavedDefs' = SavedDefs /\ SavedModel' = SavedModel
  BY SavedIs
<1>4. ServersFit(task[a])'
  BY <1>2 DEF ServersFit
<1>5. DefsFit(a)'
  BY <1>1, <1>2, <1>3, DefsStay DEF DefsDone, Starting
<1>6. r.pc # "start model"
  BY <1>1 DEF TaskRight, Starting
<1>7. ModelFits(task[a])'
  BY <1>1, <1>2, <1>3, <1>6, ModelStays DEF Asking
<1> QED
  BY <1>4, <1>5, <1>7

\* A request about the server goes on.
LEMMA ServerGoes ==
  ASSUME NEW a \in Changers, Working(a), NEW pc, NEW refs, task[a].key = "servers", task[a].pc \notin Asking,
         Moved(a, pc, "servers", task[a].value, task[a].then, refs), pc \notin Asking \union Starting,
         UNCHANGED <<config, custom, live>>
  PROVE  DefsFit(a)' /\ ModelFits(task[a])'
<1> DEFINE r == task[a]
<1>1. TasksRight /\ TaskRight(r) /\ DefsFit(a) /\ ModelFits(r)
  BY WorkingIs
<1>2. TaskRight(task[a])' /\ task'[a].key = "servers" /\ task'[a].pc = pc
  BY <1>1, MovedTask
<1>3. SavedServer' = SavedServer /\ SavedDefs' = SavedDefs /\ SavedModel' = SavedModel
  BY SavedIs
<1>4. DefsFit(a)'
  BY <1>1, <1>2, <1>3, DefsStay DEF DefsDone, Starting
<1>5. r.pc # "start model"
  BY <1>1 DEF TaskRight, Starting
<1>6. ModelFits(task[a])'
  BY <1>1, <1>2, <1>3, <1>5, ModelStays
<1> QED
  BY <1>4, <1>6

LEMMA AlignServersFits ==
  ASSUME NEW a \in Changers, Working(a), AlignServers(a)
  PROVE  RegistryFits' /\ Fits(a)'
<1> DEFINE r == task[a]
           v == r.value
<1>1. /\ ControlInv /\ TasksRight /\ ToolsRight /\ RegistryFits /\ TaskRight(r)
      /\ ServersFit(r) /\ DefsFit(a) /\ ModelFits(r) /\ PoliciesFit(r)
  BY WorkingIs
<1>2. /\ r.pc = "align" /\ r.key = "servers" /\ v \in Servers \union {Unset}
      /\ UNCHANGED <<config, policies, custom, live, changes, restarts, calm>>
  BY <1>1, AlignServersNow
<1>3. \/ Over(a) /\ ~On(v) /\ tools # Unset /\ Unregister
      \/ Over(a) /\ ~On(v) /\ tools = Unset /\ UNCHANGED <<registry, client, tools>>
      \/ Over(a) /\ On(v) /\ client = v.url /\ UNCHANGED <<registry, client, tools>>
      \/ On(v) /\ Unregister /\ Moved(a, "connect", "servers", v, r.then, r.refs)
  BY <1>1, AlignServersNow
<1>4. SavedServer' = SavedServer
  BY <1>2, SavedIs
<1>5. RegistryFits' /\ \A c \in Refs : registry'[c] = registry[c] \/ registry'[c] = Unset
  BY <1>1, <1>2, <1>3, UnregisterFits, RegistryStays
<1>6. PoliciesFit(task[a])'
  BY <1>1, <1>2, <1>5, PoliciesStay
<1>7. SavedServer = v \/ (SavedServer = Unset /\ ~On(v) /\ ~On(SavedServer))
  BY <1>1, <1>2 DEF ServersFit, On
<1>8. client # Unset => tools # Unset
  BY <1>1, <1>2 DEF ServersFit
<1>9. CASE Over(a) /\ ~On(v) /\ tools' = Unset /\ client' = Unset
  <2>1. ServersSettled'
    BY <1>4, <1>7, <1>9 DEF ServersSettled
  <2>2. ServersFit(task[a])' /\ DefsFit(a)' /\ ModelFits(task[a])'
    BY <1>2, <1>9, <2>1, ServerOver DEF Asking
  <2> QED
    BY <1>5, <1>6, <2>2, FitsNext
<1>10. CASE Over(a) /\ On(v) /\ client = v.url /\ UNCHANGED <<registry, client, tools>>
  <2>1. v \in Servers /\ v.url \in Urls /\ SavedServer = v
    BY <1>2, <1>7, <1>10 DEF On, Servers
  <2>2. client' = SavedServer.url /\ tools' # Unset
    BY <1>8, <1>10, <2>1, ControlAssumption
  <2>3. ServersSettled'
    BY <1>4, <1>10, <2>1, <2>2 DEF ServersSettled
  <2>4. ServersFit(task[a])' /\ DefsFit(a)' /\ ModelFits(task[a])'
    BY <1>2, <1>10, <2>2, <2>3, ServerOver DEF Asking
  <2> QED
    BY <1>5, <1>6, <2>4, FitsNext
<1>11. CASE On(v) /\ Unregister /\ Moved(a, "connect", "servers", v, r.then, r.refs)
  <2>1. tools' = Unset /\ client' = Unset /\ SavedServer = v
    BY <1>7, <1>11 DEF Unregister
  <2>2. task'[a].pc = "connect" /\ task'[a].key = "servers" /\ task'[a].value = v
    BY <1>1, <1>11, MovedTask
  <2>3. ServersFit(task[a])'
    BY <1>4, <2>1, <2>2 DEF ServersFit, ServersDone, Asking
  <2>4. r.pc \notin Asking /\ "connect" \notin Asking \union Starting /\ UNCHANGED <<config, custom, live>>
    BY <1>2 DEF Asking, Starting
  <2>5. DefsFit(a)' /\ ModelFits(task[a])'
    BY <1>2, <1>11, <2>4, ServerGoes
  <2> QED
    BY <1>5, <1>6, <2>3, <2>5, FitsNext
<1> QED
  BY <1>3, <1>8, <1>9, <1>10, <1>11 DEF Unregister

LEMMA ConnectFits ==
  ASSUME NEW a \in Changers, Working(a), Connect(a), calm'
  PROVE  RegistryFits' /\ Fits(a)'
<1> DEFINE r == task[a]
           v == r.value
<1>1. /\ ControlInv /\ TasksRight /\ ToolsRight /\ RegistryFits /\ TaskRight(r)
      /\ ServersFit(r) /\ DefsFit(a) /\ ModelFits(r) /\ PoliciesFit(r)
  BY WorkingIs
<1>2. /\ r.pc = "connect" /\ r.key = "servers" /\ v \in Servers /\ On(v) /\ client' = v.url
      /\ UNCHANGED <<config, policies, registry, tools, custom, live, changes, restarts>>
      /\ Moved(a, "list", "servers", v, r.then, r.refs)
  BY <1>1, ConnectNow DEF Fails
<1>3. SavedServer' = SavedServer /\ SavedServer = v /\ tools = Unset
  BY <1>1, <1>2, SavedIs DEF ServersFit
<1>4. RegistryFits'
  BY <1>1, <1>2, <1>3 DEF RegistryFits, By
<1>5. PoliciesFit(task[a])'
  BY <1>1, <1>2, PoliciesStay
<1>6. task'[a].pc = "list" /\ task'[a].key = "servers" /\ task'[a].value = v
  BY <1>1, <1>2, MovedTask
<1>7. ServersFit(task[a])'
  BY <1>2, <1>3, <1>6 DEF ServersFit, ServersDone, Asking
<1>8. DefsFit(a)' /\ ModelFits(task[a])'
  <2>1. r.pc \notin Asking /\ "list" \notin Asking \union Starting /\ UNCHANGED <<config, custom, live>>
    BY <1>2 DEF Asking, Starting
  <2> QED
    BY <1>2, <2>1, ServerGoes
<1> QED
  BY <1>4, <1>5, <1>7, <1>8, FitsNext

LEMMA ListToolsFits ==
  ASSUME NEW a \in Changers, Working(a), ListTools(a), calm'
  PROVE  RegistryFits' /\ Fits(a)'
<1> DEFINE r == task[a]
           v == r.value
<1>1. /\ ControlInv /\ TasksRight /\ ToolsRight /\ RegistryFits /\ TaskRight(r)
      /\ ServersFit(r) /\ DefsFit(a) /\ ModelFits(r) /\ PoliciesFit(r)
  BY WorkingIs
<1>2. /\ r.pc = "list" /\ r.key = "servers" /\ v \in Servers /\ On(v)
      /\ UNCHANGED <<config, policies, client, custom, live, changes, restarts>>
      /\ Taken(v) = {} /\ Registers(v) /\ tools' = Free(v)
      /\ Moved(a, "policy", "servers", v, r.then, Free(v))
  BY <1>1, ListToolsNow DEF Fails
<1>3. SavedServer' = SavedServer /\ SavedServer = v /\ tools = Unset /\ client = v.url
  BY <1>1, <1>2, SavedIs DEF ServersFit
<1>4. /\ Free(v) \subseteq ServerRefs /\ Free(v) \subseteq Refs /\ Free(v) # Unset
      /\ \A c \in Free(v) : registry[c] = Unset
  BY <1>2, FreeTools, ControlAssumption DEF Refs
<1>5. v.url \in Urls /\ v.url # Unset
  <2>1. v.url \in Urls
    BY <1>2 DEF Servers
  <2> QED
    BY <2>1, ControlAssumption
<1>6. \A c \in Refs : /\ c \in Free(v) => registry'[c].by = "server" /\ registry'[c].of = v.url /\ registry'[c] # Unset
                      /\ c \notin Free(v) => registry'[c] = registry[c]
  <2> DEFINE owner == [by |-> "server", of |-> v.url]
  <2>1. owner \in Owner /\ owner.by = "server" /\ owner.of = v.url
    BY <1>5 DEF Owner
  <2>2. \A c \in Refs : registry'[c] = IF c \in Free(v) THEN owner ELSE registry[c]
    BY <1>2 DEF Registers
  <2>3. owner # Unset
    BY <2>1, ControlAssumption
  <2> HIDE DEF owner
  <2> QED
    BY <2>1, <2>2, <2>3
<1>7. \A c \in Refs : /\ c \in Free(v) => By(c)' = "server" /\ By(c) = "nobody"
                      /\ c \notin Free(v) => By(c)' = By(c)
  BY <1>4, <1>6 DEF By
<1>8. RegistryFits'
  <2>1. \A c \in Refs : By(c)' = "server" <=> c \in Free(v)
    BY <1>1, <1>3, <1>7 DEF RegistryFits
  <2>2. client' # Unset /\ \A c \in Free(v) : registry'[c].of = client'
    BY <1>2, <1>3, <1>4, <1>5, <1>6
  <2>3. CustomRefs \subseteq Refs
    BY DEF Refs
  <2>4. ASSUME NEW c \in CustomRefs
        PROVE  /\ custom[c] = Unset => By(c)' # "custom"
               /\ custom[c] # Unset => By(c)' = "custom" /\ Code(registry'[c].of) = custom[c]
    BY <1>1, <1>6, <1>7, <2>3 DEF RegistryFits
  <2> QED
    BY <1>2, <1>4, <2>1, <2>2, <2>4 DEF RegistryFits
<1>9. task'[a].pc = "policy" /\ task'[a].key = "servers" /\ task'[a].value = v /\ task'[a].refs = Free(v)
  BY <1>1, <1>2, MovedTask
<1>10. PoliciesFit(task[a])'
  <2>1. \A c \in Refs : By(c) \in {"server", "custom"} => c \in policies
    BY <1>1, <1>2 DEF PoliciesFit, AllowedNext
  <2> QED
    BY <1>2, <1>7, <1>9, <2>1 DEF PoliciesFit, AllowedNext
<1>11. ServersFit(task[a])'
  BY <1>2, <1>3, <1>4, <1>9 DEF ServersFit, ServersSettled, Asking
<1>12. DefsFit(a)' /\ ModelFits(task[a])'
  <2>1. r.pc \notin Asking /\ "policy" \notin Asking \union Starting /\ UNCHANGED <<config, custom, live>>
    BY <1>2 DEF Asking, Starting
  <2> QED
    BY <1>2, <2>1, ServerGoes
<1> QED
  BY <1>8, <1>10, <1>11, <1>12, FitsNext

LEMMA EnsureAllowPoliciesFits ==
  ASSUME NEW a \in Changers, Working(a), EnsureAllowPolicies(a)
  PROVE  RegistryFits' /\ Fits(a)'
<1> DEFINE r == task[a]
<1>1. /\ ControlInv /\ TasksRight /\ ToolsRight /\ RegistryFits /\ TaskRight(r)
      /\ ServersFit(r) /\ DefsFit(a) /\ ModelFits(r) /\ PoliciesFit(r)
  BY WorkingIs
<1>2. /\ r.pc = "policy" /\ r.key = "servers" /\ Over(a) /\ policies' = policies \union r.refs
      /\ UNCHANGED <<config, registry, client, tools, custom, live>>
  BY <1>1, EnsureAllowPoliciesNow DEF memory
<1>3. RegistryFits'
  BY <1>1, <1>2, RegistryStays
<1>4. PoliciesFit(task[a])'
  <2>1. \A c \in Refs : By(c)' = By(c)
    BY <1>2 DEF By
  <2> QED
    BY <1>1, <1>2, <2>1 DEF PoliciesFit, AllowedNext
<1>5. ServersSettled' /\ (client' # Unset => tools' # Unset)
  <2>1. SavedServer' = SavedServer
    BY <1>2, SavedIs
  <2> QED
    BY <1>1, <1>2, <2>1 DEF ServersFit, ServersDone, ServersSettled
<1>6. ServersFit(task[a])' /\ DefsFit(a)' /\ ModelFits(task[a])'
  BY <1>2, <1>5, ServerOver DEF Asking
<1> QED
  BY <1>3, <1>4, <1>6, FitsNext

LEMMA DropServerFits ==
  ASSUME NEW a \in Changers, Working(a), DropServer(a)
  PROVE  RegistryFits' /\ Fits(a)'
<1> DEFINE r == task[a]
<1>1. /\ ControlInv /\ TasksRight /\ ToolsRight /\ RegistryFits /\ TaskRight(r)
      /\ ServersFit(r) /\ DefsFit(a) /\ ModelFits(r) /\ PoliciesFit(r)
  BY WorkingIs
<1>2. /\ r.pc = "drop" /\ r.key = "servers" /\ Over(a) /\ Unregister
      /\ UNCHANGED <<config, policies, custom, live>>
  BY <1>1, DropServerNow
<1>3. RegistryFits' /\ \A c \in Refs : registry'[c] = registry[c] \/ registry'[c] = Unset
  BY <1>1, <1>2, UnregisterFits
<1>4. PoliciesFit(task[a])'
  BY <1>1, <1>2, <1>3, PoliciesStay
<1>5. ServersSettled' /\ (client' # Unset => tools' # Unset)
  <2>1. SavedServer' = SavedServer /\ SavedServer = Unset
    BY <1>1, <1>2, SavedIs DEF ServersFit
  <2> QED
    BY <1>2, <2>1 DEF ServersSettled, Unregister, On
<1>6. ServersFit(task[a])' /\ DefsFit(a)' /\ ModelFits(task[a])'
  BY <1>2, <1>5, ServerOver DEF Asking
<1> QED
  BY <1>3, <1>4, <1>6, FitsNext

-----------------------------------------------------------------------------
\* The manager of the custom tools.
LEMMA CustomOthers ==
  ASSUME NEW a \in Changers, Working(a), task[a].key = "defs", task[a].pc \notin Asking,
         task'[a].key # "servers", task'[a].pc \in {"define", "policy", "idle"},
         UNCHANGED <<config, client, tools, live>>
  PROVE  ServersFit(task[a])' /\ ModelFits(task[a])'
<1>1. TaskRight(task[a]) /\ ServersFit(task[a]) /\ ModelFits(task[a])
  BY WorkingIs
<1>2. task[a].pc \notin {"connect", "list", "start model", "start servers"}
  BY <1>1 DEF TaskRight, Starting
<1>3. SavedServer' = SavedServer /\ SavedModel' = SavedModel
  BY SavedIs
<1>4. ServersFit(task[a])'
  BY <1>1, <1>2, <1>3, ServersStay DEF ServersDone
<1>5. ModelFits(task[a])'
  BY <1>1, <1>2, <1>3, ModelStays DEF Asking
<1> QED
  BY <1>4, <1>5

\* A custom tool is taken away, or put where none or nobody was.
LEMMA CustomFits ==
  ASSUME ToolsRight, RegistryFits, UNCHANGED <<client, tools>>,
         \A c \in Refs \ CustomRefs : registry'[c] = registry[c],
         \A c \in CustomRefs :
           \/ custom'[c] = custom[c] /\ registry'[c] = registry[c]
           \/ /\ By(c) \in {"custom", "nobody"}
              /\ \/ custom'[c] = Unset /\ By(c)' = "nobody"
                 \/ custom'[c] # Unset /\ By(c)' = "custom" /\ Code(registry'[c].of) = custom'[c]
  PROVE  RegistryFits'
<1>1. CustomRefs \subseteq Refs
  BY DEF Refs
<1>2. \A c \in Refs : By(c) = "server" \/ By(c)' = "server" => registry'[c] = registry[c] /\ By(c)' = By(c)
  BY <1>1, ByStays
<1>3. \A c \in Refs : By(c)' = "server" <=> By(c) = "server"
  BY <1>2
<1>4. tools # Unset => \A c \in tools : c \in Refs /\ By(c) = "server"
  BY ServersTools DEF RegistryFits
<1>5. \A c \in CustomRefs :
        /\ custom'[c] = Unset => By(c)' # "custom"
        /\ custom'[c] # Unset => By(c)' = "custom" /\ Code(registry'[c].of) = custom'[c]
  BY <1>1, ByStays DEF RegistryFits
<1> QED
  BY <1>2, <1>3, <1>4, <1>5 DEF RegistryFits

LEMMA AlignDefsFits ==
  ASSUME NEW a \in Changers, Working(a), AlignDefs(a)
  PROVE  RegistryFits' /\ Fits(a)'
<1> DEFINE r == task[a]
           v == r.value
<1>1. /\ ControlInv /\ TasksRight /\ ToolsRight /\ RegistryFits /\ TaskRight(r)
      /\ ServersFit(r) /\ DefsFit(a) /\ ModelFits(r) /\ PoliciesFit(r)
  BY WorkingIs
<1>2. /\ r.pc = "align" /\ r.key = "defs" /\ v \in Defs
      /\ custom' = [c \in CustomRefs |-> IF c \in Undefined(v) THEN Unset ELSE custom[c]]
      /\ registry' = [c \in Refs |-> IF c \in Undefined(v) THEN Unset ELSE registry[c]]
      /\ UNCHANGED <<config, policies, client, tools, live, changes, restarts, calm>>
      /\ Moved(a, "define", "defs", v, r.then, Defining(v))
  BY <1>1, AlignDefsNow
<1>3. SavedDefs' = v /\ SavedDefs' = SavedDefs
  BY <1>1, <1>2, SavedIs DEF DefsFit
<1>4. TaskRight(task[a])' /\ task'[a].pc = "define" /\ task'[a].key = "defs" /\ task'[a].value = v
      /\ task'[a].refs = Defining(v)
  BY <1>1, <1>2, MovedTask
<1>5. CustomRefs \subseteq Refs /\ Undefined(v) \subseteq CustomRefs
  BY DEF Refs, Undefined
<1>6. RegistryFits'
  <2>1. \A c \in Refs : registry'[c] = IF c \in Undefined(v) THEN Unset ELSE registry[c]
    BY <1>2
  <2>2. \A c \in CustomRefs : custom'[c] = IF c \in Undefined(v) THEN Unset ELSE custom[c]
    BY <1>2
  <2>3. \A c \in Undefined(v) : By(c) = "custom" /\ By(c)' = "nobody"
    BY <1>1, <1>5, <2>1, ByStays DEF Undefined, RegistryFits
  <2>4. \A c \in CustomRefs :
           \/ custom'[c] = custom[c] /\ registry'[c] = registry[c]
           \/ By(c) = "custom" /\ custom'[c] = Unset /\ By(c)' = "nobody"
    BY <1>5, <2>1, <2>2, <2>3
  <2>5. \A c \in Refs \ CustomRefs : registry'[c] = registry[c]
    BY <1>5, <2>1
  <2> QED
    BY <1>1, <1>2, <2>4, <2>5, CustomFits
<1>7. PoliciesFit(task[a])'
  BY <1>1, <1>2, PoliciesStay
<1>8. ServersFit(task[a])' /\ ModelFits(task[a])'
  BY <1>2, <1>4, CustomOthers DEF Asking
<1>9. DefsFit(a)'
  <2>1. Defines(task[a], Defining(v))'
    BY <1>3, <1>4 DEF Defines, Defining
  <2>2. Registered(CustomRefs \ Defining(v))'
    BY <1>2, <1>3, <1>4 DEF Registered, Defining, Undefined, CodeOf
  <2> QED
    BY <1>4, <2>1, <2>2 DEF DefsFit, DefsDone, Defines, Registered
<1> QED
  BY <1>6, <1>7, <1>8, <1>9, FitsNext

LEMMA DefineFits ==
  ASSUME NEW a \in Changers, NEW c \in CustomRefs, Working(a), Define(a, c), calm'
  PROVE  RegistryFits' /\ Fits(a)'
<1> DEFINE r == task[a]
           v == r.value
<1>1. /\ ControlInv /\ TasksRight /\ ToolsRight /\ RegistryFits /\ TaskRight(r)
      /\ ServersFit(r) /\ DefsFit(a) /\ ModelFits(r) /\ PoliciesFit(r)
  BY WorkingIs
<1>2. /\ r.pc = "define" /\ r.key = "defs" /\ c \in r.refs /\ v \in Defs
      /\ v[c] # Unset /\ r.refs \subseteq CustomRefs
      /\ UNCHANGED <<config, policies, client, tools, live, changes, restarts>>
      /\ \/ /\ custom[c] = CodeOf(v, c) /\ UNCHANGED <<custom, registry, calm>>
            /\ Moved(a, "define", "defs", v, r.then, r.refs \ {c})
         \/ /\ custom[c] # Unset \/ registry[c] = Unset
            /\ Replaces(c, v)
            /\ Moved(a, "policy", "defs", [v EXCEPT ![c] = Unset], r.then, r.refs)
  BY <1>1, DefineNow
<1>3. SavedDefs' = SavedDefs /\ Defines(r, r.refs) /\ Registered(CustomRefs \ r.refs)
  BY <1>1, <1>2, SavedIs DEF DefsFit
<1>4. CodeOf(v, c) = CodeOf(SavedDefs, c)
  BY <1>2, <1>3 DEF Defines, CodeOf
<1>5. CASE /\ custom[c] = CodeOf(v, c) /\ UNCHANGED <<custom, registry, calm>>
           /\ Moved(a, "define", "defs", v, r.then, r.refs \ {c})
  <2>1. task'[a].pc = "define" /\ task'[a].key = "defs" /\ task'[a].value = v
        /\ task'[a].refs = r.refs \ {c}
    BY <1>1, <1>5, MovedTask
  <2>2. RegistryFits'
    BY <1>1, <1>2, <1>5, RegistryStays
  <2>3. PoliciesFit(task[a])'
    BY <1>1, <1>2, <1>5, PoliciesStay
  <2>4. ServersFit(task[a])' /\ ModelFits(task[a])'
    BY <1>2, <2>1, CustomOthers DEF Asking
  <2>5. PICK S : S = r.refs \ {c}
    OBVIOUS
  <2>6. Defines(task[a], S)' /\ Registered(CustomRefs \ S)'
    BY <1>3, <1>4, <1>5, <2>1, <2>5 DEF Defines, Registered
  <2>7. DefsFit(a)'
    BY <2>1, <2>5, <2>6 DEF DefsFit, DefsDone
  <2> QED
    BY <2>2, <2>3, <2>4, <2>7, FitsNext
<1>6. CASE /\ custom[c] # Unset \/ registry[c] = Unset
           /\ Replaces(c, v)
           /\ Moved(a, "policy", "defs", [v EXCEPT ![c] = Unset], r.then, r.refs)
  <2>1. /\ task'[a].pc = "policy" /\ task'[a].key = "defs" /\ task'[a].refs = r.refs
        /\ task'[a].value = [v EXCEPT ![c] = Unset]
    BY <1>1, <1>6, MovedTask
  <2>2. task'[a].value[c] = Unset /\ \A d \in CustomRefs \ {c} : task'[a].value[d] = v[d]
    BY <1>2, <2>1 DEF Defs
  <2>3. CustomRefs \subseteq Refs /\ registry \in [Refs -> Owner \union {Unset}]
        /\ custom \in [CustomRefs -> Codes \union {Unset}]
    BY <1>1 DEF Refs, ToolsRight, MemoryTypes
  <2>4. /\ CodeOf(v, c) # Unset /\ CodeOf(v, c) = Code(v[c])
        /\ [by |-> "custom", of |-> v[c]] \in Owner /\ [by |-> "custom", of |-> v[c]] # Unset
    BY <1>2, CodeType, ControlAssumption
  <2>5. /\ registry'[c] # Unset /\ registry'[c].by = "custom" /\ registry'[c].of = v[c]
        /\ custom'[c] = CodeOf(v, c)
        /\ \A d \in Refs \ {c} : registry'[d] = registry[d]
        /\ \A d \in CustomRefs \ {c} : custom'[d] = custom[d]
    <3>1. registry'[c] = [by |-> "custom", of |-> v[c]]
      BY <1>6, <2>3 DEF Replaces
    <3>2. /\ custom'[c] = CodeOf(v, c)
          /\ \A d \in Refs \ {c} : registry'[d] = registry[d]
          /\ \A d \in CustomRefs \ {c} : custom'[d] = custom[d]
      BY <1>6, <2>3 DEF Replaces
    <3> QED
      BY <2>4, <3>1, <3>2
  <2>6. By(c)' = "custom" /\ By(c) \in {"custom", "nobody"}
    BY <1>1, <1>6, <2>5 DEF By, RegistryFits
  <2>7. RegistryFits'
    <3>1. Code(registry'[c].of) = custom'[c] /\ custom'[c] # Unset
      BY <2>4, <2>5
    <3>2. \A d \in Refs \ CustomRefs : registry'[d] = registry[d]
      BY <2>5
    <3>3. \A d \in CustomRefs :
           \/ custom'[d] = custom[d] /\ registry'[d] = registry[d]
           \/ /\ By(d) \in {"custom", "nobody"}
              /\ custom'[d] # Unset /\ By(d)' = "custom" /\ Code(registry'[d].of) = custom'[d]
      BY <2>3, <2>5, <2>6, <3>1
    <3> QED
      BY <1>1, <1>2, <3>2, <3>3, CustomFits
  <2>8. PoliciesFit(task[a])'
    <3>1. \A d \in Refs \ {c} : By(d)' = By(d)
      BY <2>5, ByStays
    <3>2. \A d \in Refs : By(d) \in {"server", "custom"} => d \in policies
      BY <1>1, <1>2 DEF PoliciesFit, AllowedNext
    <3>3. AllowedNext(task[a], c)'
      BY <1>2, <2>1, <2>2 DEF AllowedNext
    <3> QED
      BY <1>2, <3>1, <3>2, <3>3 DEF PoliciesFit
  <2>9. ServersFit(task[a])' /\ ModelFits(task[a])'
    BY <1>2, <2>1, CustomOthers DEF Asking
  <2>10. PICK S : S = r.refs \ {c}
    OBVIOUS
  <2>11. Left(task[a])' = S
    <3>1. \A d \in r.refs : v[d] # Unset
      BY <1>1, <1>2 DEF TaskRight
    <3>2. Left(task[a])' = {d \in r.refs : task'[a].value[d] # Unset}
      BY <2>1 DEF Left
    <3> QED
      BY <1>2, <2>2, <2>10, <3>1, <3>2
  <2>12. Defines(task[a], S)'
    BY <1>2, <1>3, <2>2, <2>10 DEF Defines
  <2>13. Registered(CustomRefs \ S)'
    BY <1>3, <1>4, <2>5, <2>10 DEF Registered
  <2>14. DefsFit(a)'
    BY <2>1, <2>11, <2>12, <2>13 DEF DefsFit, DefsDone
  <2> QED
    BY <2>7, <2>8, <2>9, <2>14, FitsNext
<1> QED
  BY <1>2, <1>5, <1>6

LEMMA EnsureAllowPolicyFits ==
  ASSUME NEW a \in Changers, Working(a), EnsureAllowPolicy(a)
  PROVE  RegistryFits' /\ Fits(a)'
<1> DEFINE r == task[a]
<1>1. /\ ControlInv /\ TasksRight /\ ToolsRight /\ RegistryFits /\ TaskRight(r)
      /\ ServersFit(r) /\ DefsFit(a) /\ ModelFits(r) /\ PoliciesFit(r)
  BY WorkingIs
<1>2. /\ r.pc = "policy" /\ r.key = "defs" /\ policies' = policies \union (r.refs \ Left(r))
      /\ UNCHANGED <<config, registry, client, tools, custom, live>>
      /\ Moved(a, "define", "defs", r.value, r.then, Left(r))
  BY <1>1, EnsureAllowPolicyNow DEF memory
<1>3. task'[a].pc = "define" /\ task'[a].key = "defs" /\ task'[a].value = r.value /\ task'[a].refs = Left(r)
  BY <1>1, <1>2, MovedTask
<1>4. RegistryFits'
  BY <1>1, <1>2, RegistryStays
<1>5. PoliciesFit(task[a])'
  <2>1. \A c \in Refs : By(c)' = By(c)
    BY <1>2 DEF By
  <2> QED
    BY <1>1, <1>2, <2>1 DEF PoliciesFit, AllowedNext, Left
<1>6. ServersFit(task[a])' /\ ModelFits(task[a])'
  BY <1>2, <1>3, CustomOthers DEF Asking
<1>7. DefsFit(a)'
  <2>1. SavedDefs' = SavedDefs
    BY <1>2, SavedIs
  <2>2. Defines(r, Left(r)) /\ Registered(CustomRefs \ Left(r))
    BY <1>1, <1>2 DEF DefsFit
  <2>3. Defines(task[a], task[a].refs)' /\ Registered(CustomRefs \ task[a].refs)'
    BY <1>2, <1>3, <2>1, <2>2 DEF Defines, Registered
  <2> QED
    BY <1>3, <2>3 DEF DefsFit, DefsDone
<1> QED
  BY <1>4, <1>5, <1>6, <1>7, FitsNext

LEMMA DefinedFits ==
  ASSUME NEW a \in Changers, Working(a), Defined(a)
  PROVE  RegistryFits' /\ Fits(a)'
<1> DEFINE r == task[a]
<1>1. /\ ControlInv /\ TasksRight /\ ToolsRight /\ RegistryFits /\ TaskRight(r)
      /\ ServersFit(r) /\ DefsFit(a) /\ ModelFits(r) /\ PoliciesFit(r)
  BY WorkingIs
<1>2. /\ r.pc = "define" /\ r.key = "defs" /\ r.refs = {} /\ Over(a)
      /\ UNCHANGED <<config, policies, registry, client, tools, custom, live>>
  BY <1>1, DefinedNow DEF memory
<1>3. task'[a].key = "model" /\ task'[a].pc = "idle"
  BY <1>1, <1>2, DoneIs
<1>4. RegistryFits'
  BY <1>1, <1>2, RegistryStays
<1>5. PoliciesFit(task[a])'
  BY <1>1, <1>2, PoliciesStay
<1>6. ServersFit(task[a])' /\ ModelFits(task[a])'
  BY <1>2, <1>3, CustomOthers DEF Asking
<1>7. DefsFit(a)'
  <2>1. Registered(CustomRefs) /\ SavedDefs' = SavedDefs
    BY <1>1, <1>2, SavedIs DEF DefsFit, Registered
  <2>2. Registered(CustomRefs)'
    BY <1>2, <2>1 DEF Registered
  <2> QED
    BY <1>3, <2>2 DEF DefsFit
<1> QED
  BY <1>4, <1>5, <1>6, <1>7, FitsNext

LEMMA DropDefFits ==
  ASSUME NEW a \in Changers, Working(a), DropDef(a), calm'
  PROVE  RegistryFits' /\ Fits(a)'
<1> DEFINE r == task[a]
<1>1. /\ ControlInv /\ TasksRight /\ ToolsRight /\ RegistryFits /\ TaskRight(r)
      /\ ServersFit(r) /\ DefsFit(a) /\ ModelFits(r) /\ PoliciesFit(r)
  BY WorkingIs
<1>2. /\ r.pc = "drop" /\ r.key = "defs" /\ Over(a)
      /\ UNCHANGED <<config, policies, client, tools, live, changes, restarts>>
  BY <1>1, DropDefNow
<1>3. PICK c \in CustomRefs : /\ c \in r.refs
                              /\ custom' = [custom EXCEPT ![c] = Unset]
                              /\ registry' = [registry EXCEPT ![c] = Unset]
                              /\ calm' = (calm /\ By(c) \in {"custom", "nobody"})
  BY <1>1, DropDefNow
<1>4. By(c) \in {"custom", "nobody"}
  BY <1>3
<1>5. SavedDefs[c] = Unset /\ Registered(CustomRefs \ {c}) /\ SavedDefs' = SavedDefs
  BY <1>1, <1>2, <1>3, SavedIs DEF DefsFit
<1>6. CustomRefs \subseteq Refs /\ registry \in [Refs -> Owner \union {Unset}]
      /\ custom \in [CustomRefs -> Codes \union {Unset}]
  BY <1>1 DEF Refs, ToolsRight, MemoryTypes
<1>7. /\ registry'[c] = Unset /\ custom'[c] = Unset
      /\ \A d \in Refs \ {c} : registry'[d] = registry[d]
      /\ \A d \in CustomRefs \ {c} : custom'[d] = custom[d]
  BY <1>3, <1>6
<1>8. RegistryFits'
  <2>1. By(c)' = "nobody"
    BY <1>6, <1>7, ByStays
  <2>2. \A d \in Refs \ CustomRefs : registry'[d] = registry[d]
    BY <1>7
  <2>3. \A d \in CustomRefs :
           \/ custom'[d] = custom[d] /\ registry'[d] = registry[d]
           \/ /\ By(d) \in {"custom", "nobody"} /\ custom'[d] = Unset /\ By(d)' = "nobody"
    BY <1>4, <1>6, <1>7, <2>1
  <2> QED
    BY <1>1, <1>2, <2>2, <2>3, CustomFits
<1>9. task'[a].key = "model" /\ task'[a].pc = "idle"
  BY <1>1, <1>2, DoneIs
<1>10. PoliciesFit(task[a])'
  BY <1>1, <1>2, <1>7, PoliciesStay
<1>11. ServersFit(task[a])' /\ ModelFits(task[a])'
  BY <1>2, <1>9, CustomOthers DEF Asking
<1>12. DefsFit(a)'
  <2>1. Registered(CustomRefs)'
    BY <1>5, <1>7 DEF Registered, CodeOf
  <2> QED
    BY <1>9, <2>1 DEF DefsFit
<1> QED
  BY <1>8, <1>10, <1>11, <1>12, FitsNext

-----------------------------------------------------------------------------
\* The start-up, and a request that begins when nothing else is on its way.
LEMMA StartupMoved ==
  ASSUME TasksRight, NEW pc, NEW key, NEW value, NEW then, NEW refs,
         Moved(Startup, pc, key, value, then, refs)
  PROVE  /\ TaskRight(task[Startup])' /\ task'[Startup].pc = pc /\ task'[Startup].key = key
         /\ task'[Startup].value = value
<1>1. PICK a \in Changers : a = Startup
  BY DEF Changers
<1>2. Moved(a, pc, key, value, then, refs)
  BY <1>1
<1>3. TaskRight(task[a])' /\ task'[a].pc = pc /\ task'[a].key = key /\ task'[a].value = value
  BY <1>2, MovedTask
<1> QED
  BY <1>1, <1>3

LEMMA StartModelFits ==
  ASSUME Working(Startup), StartModel
  PROVE  RegistryFits' /\ Fits(Startup)'
<1> DEFINE r == task[Startup]
<1>0. Startup \in Changers
  BY DEF Changers
<1>1. /\ ControlInv /\ TasksRight /\ ToolsRight /\ RegistryFits
      /\ ServersFit(r) /\ DefsFit(Startup) /\ ModelFits(r) /\ PoliciesFit(r)
  BY <1>0, WorkingIs
<1>2. /\ r.pc = "start model" /\ r.key = "model" /\ live' = SavedModel
      /\ UNCHANGED <<config, policies, registry, client, tools, custom>>
      /\ Moved(Startup, "start servers", "model", r.value, r.then, r.refs)
  BY <1>1, StartModelNow DEF SavedModel
<1>3. SavedServer' = SavedServer /\ SavedDefs' = SavedDefs /\ SavedModel' = SavedModel
  BY <1>2, SavedIs
<1>4. TaskRight(task[Startup])' /\ task'[Startup].pc = "start servers" /\ task'[Startup].key = "model"
  BY <1>0, <1>1, <1>2, StartupMoved
<1>5. RegistryFits'
  BY <1>1, <1>2, RegistryStays
<1>6. PoliciesFit(task[Startup])'
  BY <1>0, <1>1, <1>2, PoliciesStay
<1>7. ServersFit(task[Startup])'
  BY <1>1, <1>2, <1>3, <1>4 DEF ServersFit, ServersDone
<1>8. ModelFits(task[Startup])'
  BY <1>2, <1>3, <1>4 DEF ModelFits, Asking
<1>9. DefsFit(Startup)'
  BY <1>4 DEF DefsFit, DefsDone, Starting
<1> QED
  BY <1>0, <1>5, <1>6, <1>7, <1>8, <1>9, FitsNext

LEMMA StartServersFits ==
  ASSUME ~On(EnvServer), Working(Startup), StartServers
  PROVE  RegistryFits' /\ Fits(Startup)'
<1> DEFINE r == task[Startup]
           v == IF SavedServer = Unset THEN EnvServer ELSE SavedServer
<1>0. Startup \in Changers
  BY DEF Changers
<1>1. /\ ControlInv /\ TasksRight /\ ToolsRight /\ RegistryFits
      /\ ServersFit(r) /\ DefsFit(Startup) /\ ModelFits(r) /\ PoliciesFit(r)
  BY <1>0, WorkingIs
<1>2. /\ r.pc = "start servers" /\ r.key = "model"
      /\ UNCHANGED <<config, policies, registry, client, tools, custom, live>>
      /\ v = Unset => Moved(Startup, "start defs", "model", r.value, r.then, r.refs)
      /\ v # Unset => Moved(Startup, "align", "servers", v, r.then, r.refs)
  BY <1>1, StartServersNow DEF SavedServer, memory
<1>3. SavedServer' = SavedServer /\ SavedDefs' = SavedDefs /\ SavedModel' = SavedModel
  BY <1>2, SavedIs
<1>4. RegistryFits'
  BY <1>1, <1>2, RegistryStays
<1>5. PoliciesFit(task[Startup])'
  BY <1>0, <1>1, <1>2, PoliciesStay
<1>6. live = SavedModel /\ tools = Unset /\ client = Unset
  BY <1>1, <1>2 DEF ModelFits, ServersFit, Asking
<1>7. v = Unset => SavedServer = Unset
  OBVIOUS
<1>8. SavedServer = v \/ (SavedServer = Unset /\ ~On(v))
  OBVIOUS
<1> HIDE DEF v
<1>9. CASE v = Unset
  <2>1. task'[Startup].pc = "start defs" /\ task'[Startup].key = "model"
    BY <1>0, <1>1, <1>2, <1>9, StartupMoved
  <2>2. ServersSettled'
    BY <1>2, <1>3, <1>6, <1>7, <1>9 DEF ServersSettled, On
  <2>3. ServersFit(task[Startup])'
    BY <1>2, <1>6, <2>1, <2>2 DEF ServersFit
  <2>4. ModelFits(task[Startup])'
    BY <1>2, <1>3, <1>6, <2>1 DEF ModelFits, Asking
  <2>5. DefsFit(Startup)'
    BY <2>1 DEF DefsFit, DefsDone, Starting
  <2> QED
    BY <1>0, <1>4, <1>5, <2>3, <2>4, <2>5, FitsNext
<1>10. CASE v # Unset
  <2>1. task'[Startup].pc = "align" /\ task'[Startup].key = "servers" /\ task'[Startup].value = v
    BY <1>0, <1>1, <1>2, <1>10, StartupMoved
  <2>2. ServersFit(task[Startup])'
    BY <1>2, <1>3, <1>6, <1>8, <2>1 DEF ServersFit, ServersDone, Asking
  <2>3. ModelFits(task[Startup])'
    BY <1>2, <1>3, <1>6, <2>1 DEF ModelFits, Asking
  <2>4. DefsFit(Startup)'
    BY <2>1 DEF DefsFit, DefsDone
  <2> QED
    BY <1>0, <1>4, <1>5, <2>2, <2>3, <2>4, FitsNext
<1> QED
  BY <1>9, <1>10

LEMMA StartDefsFits ==
  ASSUME Working(Startup), StartDefs
  PROVE  RegistryFits' /\ Fits(Startup)'
<1> DEFINE r == task[Startup]
<1>0. Startup \in Changers
  BY DEF Changers
<1>1. /\ ControlInv /\ TasksRight /\ ToolsRight /\ RegistryFits
      /\ ServersFit(r) /\ DefsFit(Startup) /\ ModelFits(r) /\ PoliciesFit(r)
  BY <1>0, WorkingIs
<1>2. /\ r.pc = "start defs" /\ r.key = "model"
      /\ UNCHANGED <<config, policies, registry, client, tools, custom, live>>
      /\ Moved(Startup, "align", "defs", SavedDefs, r.then, r.refs)
  BY <1>1, StartDefsNow DEF SavedDefs, memory
<1>3. SavedServer' = SavedServer /\ SavedDefs' = SavedDefs /\ SavedModel' = SavedModel
  BY <1>2, SavedIs
<1>4. task'[Startup].pc = "align" /\ task'[Startup].key = "defs" /\ task'[Startup].value = SavedDefs
  BY <1>0, <1>1, <1>2, StartupMoved
<1>5. RegistryFits'
  BY <1>1, <1>2, RegistryStays
<1>6. PoliciesFit(task[Startup])'
  BY <1>0, <1>1, <1>2, PoliciesStay
<1>7. ServersFit(task[Startup])'
  BY <1>0, <1>1, <1>2, <1>3, <1>4, ServersStay DEF ServersDone
<1>8. ModelFits(task[Startup])'
  BY <1>0, <1>1, <1>2, <1>3, <1>4, ModelStays DEF Asking
<1>9. DefsFit(Startup)'
  BY <1>3, <1>4 DEF DefsFit, DefsDone
<1> QED
  BY <1>0, <1>5, <1>6, <1>7, <1>8, <1>9, FitsNext

\* When all stands still, what is saved is what is used.
LEMMA QuietFits ==
  ASSUME NEW a \in Changers, Fits(a), task[a] = NoTask
  PROVE  /\ ServersSettled /\ (client # Unset => tools # Unset) /\ Registered(CustomRefs)
         /\ live = SavedModel /\ \A c \in Refs : By(c) \in {"server", "custom"} => c \in policies
<1>1. NoTask.pc = "idle" /\ NoTask.key = "model"
  BY NoTaskType
<1>2. ServersSettled /\ (client # Unset => tools # Unset)
  BY <1>1 DEF Fits, ServersFit, ServersDone
<1>3. Registered(CustomRefs)
  BY <1>1 DEF Fits, DefsFit, DefsDone, Starting
<1>4. live = SavedModel
  BY <1>1 DEF Fits, ModelFits, Asking
<1>5. \A c \in Refs : By(c) \in {"server", "custom"} => c \in policies
  BY <1>1 DEF Fits, PoliciesFit, AllowedNext
<1> QED
  BY <1>2, <1>3, <1>4, <1>5

LEMMA AskFits ==
  ASSUME NEW a \in Changers, NEW b \in Changers, ControlInv, RegistryFits, Fits(b), Quiet,
         AskedOf(a), AskRest
  PROVE  RegistryFits' /\ Fits(a)'
<1>1. /\ ServersSettled /\ (client # Unset => tools # Unset) /\ Registered(CustomRefs)
      /\ live = SavedModel /\ \A c \in Refs : By(c) \in {"server", "custom"} => c \in policies
  BY QuietFits DEF Quiet
<1>2. PICK now : /\ Now(a, now) /\ AskRight(now.pc, now.key, now.value, now.then)
                 /\ now.key = "model" =>
                      live' = Configured(now.value) /\ (now.pc = "get" <=> now.value.key = "")
                 /\ now.key # "model" => live' = live
  BY DEF AskedOf
<1>3. task'[a] = now /\ TaskRight(now)
  BY <1>2, NowRight DEF ControlInv, Now
<1>4. UNCHANGED <<config, policies, registry, client, tools, custom>>
  BY DEF AskRest
<1>5. SavedServer' = SavedServer /\ SavedDefs' = SavedDefs /\ SavedModel' = SavedModel
  BY <1>4, SavedIs
<1>6. now.pc \in {"get", "read"} /\ now.key \in {"servers", "defs", "model"}
  BY <1>2 DEF AskRight
<1>7. RegistryFits'
  BY <1>4, RegistryStays
<1>8. ServersFit(task[a])'
  <2>1. ServersSettled' /\ (client' # Unset => tools' # Unset)
    BY <1>1, <1>4, <1>5 DEF ServersSettled
  <2>2. now.key = "servers" /\ now.then = "drop" => now.value = Unset
    BY <1>2 DEF AskRight
  <2> QED
    BY <1>3, <1>6, <2>1, <2>2 DEF ServersFit
<1>9. DefsFit(a)'
  <2>1. Registered(CustomRefs)'
    BY <1>1, <1>4, <1>5 DEF Registered
  <2>2. now.key = "defs" => (now.then = "drop" <=> now.pc = "get")
    BY <1>2 DEF AskRight
  <2> QED
    BY <1>3, <1>6, <2>1, <2>2 DEF DefsFit
<1>10. PoliciesFit(task[a])'
  <2>1. \A c \in Refs : By(c)' = By(c)
    BY <1>4 DEF By
  <2> QED
    BY <1>1, <1>4, <2>1 DEF PoliciesFit
<1>11. ModelFits(task[a])'
  <2>1. CASE now.key # "model"
    BY <1>1, <1>2, <1>3, <1>5, <1>6, <2>1 DEF ModelFits
  <2>2. CASE now.key = "model"
    <3> DEFINE m == now.value
    <3>1. m \in Models /\ live' = Configured(m) /\ (now.pc = "get" <=> m.key = "")
      BY <1>2, <2>2 DEF AskRight
    <3>2. now.pc = "read" => live' = m
      BY <1>6, <3>1 DEF Configured
    <3>3. now.pc = "get" => live' = [m EXCEPT !.key = SavedKey(SavedModel)]
      <4>1. m.key = "" => [m EXCEPT !.key = ""] = m
        BY <3>1 DEF Models
      <4> QED
        BY <1>1, <3>1, <4>1 DEF Configured, SavedKey
    <3> QED
      BY <1>3, <1>5, <1>6, <2>2, <3>2, <3>3 DEF ModelFits, Asking
  <2> QED
    BY <2>1, <2>2
<1> QED
  BY <1>7, <1>8, <1>9, <1>10, <1>11, FitsNext

LEMMA FreshFits ==
  ASSUME registry = FreshRegistry, tools = Unset, client = Unset, custom = NoDefs
  PROVE  RegistryFits /\ \A r \in Refs : By(r) \notin {"server", "custom"}
<1>1. \A r \in Refs : By(r) \in {"nobody", "builtin"}
  <2>1. ASSUME NEW r \in Refs
        PROVE  registry[r] = Unset \/ registry[r].by = "builtin"
    BY DEF FreshRegistry
  <2> QED
    BY <2>1 DEF By
<1>2. \A c \in CustomRefs : custom[c] = Unset /\ c \in Refs
  BY DEF NoDefs, Refs
<1> QED
  BY <1>1, <1>2 DEF RegistryFits

LEMMA RestartFits ==
  ASSUME Restart
  PROVE  RegistryFits' /\ Alone(Startup)' /\ Fits(Startup)' /\ Startup \in Changers
<1>0. Startup \in Changers
  BY DEF Changers
<1>1. /\ registry' = FreshRegistry /\ tools' = Unset /\ client' = Unset /\ custom' = NoDefs
      /\ task' = [a \in Changers |-> IF a = Startup THEN [NoTask EXCEPT !.pc = "start model"] ELSE NoTask]
  BY DEF Restart
<1>2. RegistryFits' /\ \A r \in Refs : By(r)' \notin {"server", "custom"}
  <2>1. \A r \in Refs : By(r)' \in {"nobody", "builtin"}
    <3>1. ASSUME NEW r \in Refs
          PROVE  registry'[r] = Unset \/ registry'[r].by = "builtin"
      BY <1>1 DEF FreshRegistry
    <3> QED
      BY <3>1 DEF By
  <2>2. \A c \in CustomRefs : custom'[c] = Unset /\ c \in Refs
    BY <1>1 DEF NoDefs, Refs
  <2> QED
    BY <1>1, <2>1, <2>2 DEF RegistryFits
<1>3. task'[Startup].pc = "start model" /\ task'[Startup].key = "model"
  BY <1>0, <1>1, NoTaskType DEF Starting
<1>4. Alone(Startup)'
  BY <1>1 DEF Alone
<1>5. ServersFit(task[Startup])'
  BY <1>1, <1>3 DEF ServersFit, ServersDone
<1>6. DefsFit(Startup)'
  BY <1>3 DEF DefsFit, DefsDone, Starting
<1>7. ModelFits(task[Startup])'
  BY <1>3 DEF ModelFits, Asking
<1>8. PoliciesFit(task[Startup])'
  BY <1>2 DEF PoliciesFit
<1> QED
  BY <1>0, <1>2, <1>4, <1>5, <1>6, <1>7, <1>8, FitsNext

-----------------------------------------------------------------------------
\* Only who is busy moves, and only its own task.
LEMMA StepOwn ==
  ASSUME StepInv, NEW a \in Changers, Step(a)
  PROVE  /\ task[a] # NoTask /\ (calm' => calm)
         /\ \A b \in Changers \ {a} : task'[b] = task[b]
<1>1. ControlInv /\ TasksRight /\ calm \in BOOLEAN
  BY StepParts DEF CountTypes
<1>2. task[a].pc # "idle"
  BY DEF Step, At, GetSaved, ReadVersion, InsertVersion, AlignServers, Connect, ListTools,
         EnsureAllowPolicies, DropServer, AlignDefs, Define, EnsureAllowPolicy, Defined, DropDef
<1>3. task[a] # NoTask
  BY <1>1, <1>2, TaskIs
<1>4. ASSUME Over(a) PROVE \A b \in Changers \ {a} : task'[b] = task[b]
  BY <1>1, <1>4, OverTask
<1>5. ASSUME NEW pc, Goes(a, pc) PROVE \A b \in Changers \ {a} : task'[b] = task[b]
  BY <1>1, <1>5 DEF Goes, TasksRight
<1>6. CASE GetSaved(a) \/ ReadVersion(a) \/ InsertVersion(a)
  <2>1. \A b \in Changers \ {a} : task'[b] = task[b]
    BY <1>1, <1>4, <1>5, <1>6 DEF GetSaved, ReadVersion, InsertVersion, Fails, TasksRight
  <2>2. calm' => calm
    BY <1>1, <1>6 DEF GetSaved, ReadVersion, InsertVersion, Fails
  <2> QED
    BY <1>3, <2>1, <2>2
<1>7. CASE AlignServers(a) \/ Connect(a) \/ EnsureAllowPolicies(a) \/ DropServer(a)
  BY <1>1, <1>3, <1>4, <1>5, <1>7 DEF AlignServers, Connect, EnsureAllowPolicies, DropServer, Fails
<1>8. CASE ListTools(a)
  <2> DEFINE v == task[a].value
  <2>1. \/ Over(a) /\ calm' = FALSE
        \/ calm' = calm /\ Moved(a, "policy", "servers", v, task[a].then, Free(v))
    BY <1>1, <1>8, ListToolsNow DEF Fails
  <2>2. CASE Over(a) /\ calm' = FALSE
    BY <1>3, <1>4, <2>2
  <2>3. CASE calm' = calm /\ Moved(a, "policy", "servers", v, task[a].then, Free(v))
    BY <1>1, <1>3, <2>3, MovedTask
  <2> QED
    BY <2>1, <2>2, <2>3
<1>9. CASE AlignDefs(a) \/ EnsureAllowPolicy(a) \/ Defined(a) \/ DropDef(a)
  <2>1. \A b \in Changers \ {a} : task'[b] = task[b]
    BY <1>1, <1>4, <1>9 DEF AlignDefs, EnsureAllowPolicy, Defined, DropDef, TasksRight
  <2>2. calm' => calm
    <3>1. CASE AlignDefs(a) \/ EnsureAllowPolicy(a) \/ Defined(a)
      BY <1>1, <3>1 DEF AlignDefs, EnsureAllowPolicy, Defined
    <3>2. CASE DropDef(a)
      BY <1>1, <3>2 DEF DropDef
    <3> QED
      BY <1>9, <3>1, <3>2
  <2> QED
    BY <1>3, <2>1, <2>2
<1>10. ASSUME NEW c \in CustomRefs, Define(a, c)
       PROVE  (calm' => calm) /\ \A b \in Changers \ {a} : task'[b] = task[b]
  BY <1>1, <1>10, DefineNow, MovedTask
<1> QED
  BY <1>3, <1>6, <1>7, <1>8, <1>9, <1>10 DEF Step

LEMMA StartOwn ==
  ASSUME StepInv, StartModel \/ StartServers \/ StartDefs
  PROVE  /\ Startup \in Changers /\ task[Startup] # NoTask /\ calm' = calm
         /\ \A b \in Changers \ {Startup} : task'[b] = task[b]
<1>1. Startup \in Changers /\ ControlInv
  BY StepParts DEF Changers
<1>2. task[Startup].pc # "idle" /\ calm' = calm
  BY DEF StartModel, StartServers, StartDefs
<1>3. task[Startup] # NoTask
  BY <1>1, <1>2, TaskIs
<1>4. \A b \in Changers \ {Startup} : task'[b] = task[b]
  BY <1>1 DEF StartModel, StartServers, StartDefs, Goes, ControlInv, TasksRight
<1> QED
  BY <1>1, <1>2, <1>3, <1>4

\* Who is busy is the one that is.
LEMMA Lone ==
  ASSUME StepInv, AlignInv, calm, NEW a \in Changers, task[a] # NoTask
  PROVE  Working(a) /\ Alone(a)
BY DEF AlignInv, Alone, Working
LEMMA AloneNext ==
  ASSUME NEW a \in Changers, Alone(a), \A b \in Changers \ {a} : task'[b] = task[b]
  PROVE  Alone(a)'
BY DEF Alone

LEMMA AlignNext ==
  ASSUME ~On(EnvServer), StepInv, AlignInv, [ControlNext]_controlVars
  PROVE  AlignInv'
<1> SUFFICES ASSUME calm'
             PROVE  RegistryFits' /\ \E a \in Changers : Alone(a)' /\ Fits(a)'
  BY DEF AlignInv
<1>1. ASSUME NEW a \in Changers, Step(a)
      PROVE  RegistryFits' /\ \E b \in Changers : Alone(b)' /\ Fits(b)'
  <2>1. calm /\ task[a] # NoTask /\ \A b \in Changers \ {a} : task'[b] = task[b]
    BY <1>1, StepOwn
  <2>2. Working(a) /\ Alone(a)
    BY <2>1, Lone
  <2>3. Alone(a)'
    BY <2>1, <2>2, AloneNext
  <2>4. RegistryFits' /\ Fits(a)'
    <3>1. CASE GetSaved(a) \/ ReadVersion(a) \/ InsertVersion(a)
      BY <2>2, <3>1, GetSavedFits, ReadVersionFits, InsertVersionFits
    <3>2. CASE AlignServers(a) \/ Connect(a) \/ ListTools(a) \/ EnsureAllowPolicies(a) \/ DropServer(a)
      BY <2>2, <3>2, AlignServersFits, ConnectFits, ListToolsFits, EnsureAllowPoliciesFits, DropServerFits
    <3>3. CASE AlignDefs(a) \/ (\E c \in CustomRefs : Define(a, c)) \/ EnsureAllowPolicy(a) \/ Defined(a) \/ DropDef(a)
      BY <2>2, <3>3, AlignDefsFits, DefineFits, EnsureAllowPolicyFits, DefinedFits, DropDefFits
    <3> QED
      BY <1>1, <3>1, <3>2, <3>3 DEF Step
  <2> QED
    BY <2>3, <2>4
<1>2. ASSUME NEW a \in Admins, AskChange(a)
      PROVE  RegistryFits' /\ \E b \in Changers : Alone(b)' /\ Fits(b)'
  <2>1. a \in Changers /\ ControlInv /\ TasksRight
    BY StepParts DEF Changers
  <2>2. AskedOf(a) /\ AskRest
    BY <1>2, <2>1, AskNow
  <2>3. calm /\ Quiet
    BY <2>2 DEF AskRest
  <2>4. PICK b \in Changers : RegistryFits /\ Fits(b)
    BY <2>3 DEF AlignInv
  <2>5. RegistryFits' /\ Fits(a)'
    BY <2>1, <2>2, <2>3, <2>4, AskFits
  <2>6. Alone(a)
    BY <2>3 DEF Quiet, Alone
  <2>7. \A d \in Changers \ {a} : task'[d] = task[d]
    BY <2>1, <2>2, NowRight DEF AskedOf
  <2> QED
    BY <2>1, <2>5, <2>6, <2>7, AloneNext
<1>3. CASE Restart
  BY <1>3, RestartFits
<1>4. CASE StartModel \/ StartServers \/ StartDefs
  <2>1. /\ Startup \in Changers /\ task[Startup] # NoTask /\ calm
        /\ \A b \in Changers \ {Startup} : task'[b] = task[b]
    BY <1>4, StartOwn
  <2>2. Working(Startup) /\ Alone(Startup)
    BY <2>1, Lone
  <2>3. RegistryFits' /\ Fits(Startup)'
    BY <1>4, <2>2, StartModelFits, StartServersFits, StartDefsFits
  <2> QED
    BY <2>1, <2>2, <2>3, AloneNext
<1>5. CASE UNCHANGED controlVars
  <2>1. PICK b \in Changers : RegistryFits /\ Alone(b) /\ Fits(b)
    BY <1>5 DEF AlignInv, controlVars
  <2>2. UNCHANGED <<config, policies, registry, client, tools, custom, live, task>>
    BY <1>5 DEF controlVars, memory
  <2>3. Alone(b)' /\ RegistryFits'
    BY <2>1, <2>2, RegistryStays DEF Alone
  <2>4. SavedServer' = SavedServer /\ SavedDefs' = SavedDefs /\ SavedModel' = SavedModel
    BY <2>2, SavedIs
  <2>5. ServersFit(task[b])' /\ ModelFits(task[b])'
    BY <2>1, <2>2, <2>4 DEF Fits, ServersFit, ServersSettled, ModelFits
  <2>6. DefsFit(b)'
    <3>1. \A S : Registered(S)' <=> Registered(S)
      BY <2>2, <2>4 DEF Registered
    <3> QED
      BY <2>1, <2>2, <2>4, <3>1 DEF Fits, DefsFit, DefsDone, Defines
  <2>7. PoliciesFit(task[b])'
    <3>1. \A c \in Refs : By(c)' = By(c)
      BY <2>2 DEF By
    <3> QED
      BY <2>1, <2>2, <3>1 DEF Fits, PoliciesFit
  <2>8. Fits(b)'
    BY <2>5, <2>6, <2>7, FitsNext
  <2> QED
    BY <2>3, <2>8
<1> QED
  BY <1>1, <1>2, <1>3, <1>4, <1>5 DEF ControlNext

LEMMA AlignInit == ControlInit => AlignInv
<1> SUFFICES ASSUME ControlInit PROVE AlignInv
  OBVIOUS
<1>1. /\ registry = FreshRegistry /\ tools = Unset /\ client = Unset /\ custom = NoDefs /\ live = Unset
      /\ \A a \in Changers : task[a] = NoTask
  BY DEF ControlInit
<1>2. RegistryFits /\ \A r \in Refs : By(r) \notin {"server", "custom"}
  BY <1>1, FreshFits
<1>3. SavedServer = Unset /\ SavedDefs = NoDefs /\ SavedModel = Unset
  BY SettingsAre DEF ControlInit, SavedServer, SavedDefs, SavedModel
<1>4. Startup \in Changers /\ NoTask.pc = "idle" /\ NoTask.key = "model"
  BY NoTaskType DEF Changers
<1>5. ServersFit(NoTask)
  BY <1>1, <1>3, <1>4 DEF ServersFit, ServersSettled, On
<1>6. Registered(CustomRefs)
  BY <1>1, <1>3 DEF Registered, NoDefs, CodeOf
<1>7. DefsFit(Startup)
  BY <1>1, <1>4, <1>6 DEF DefsFit
<1>8. ModelFits(NoTask) /\ PoliciesFit(NoTask)
  BY <1>1, <1>2, <1>3, <1>4 DEF ModelFits, PoliciesFit, Asking
<1> QED
  BY <1>1, <1>2, <1>4, <1>5, <1>7, <1>8 DEF AlignInv, Alone, Fits

LEMMA AlignedHolds == StepInv /\ AlignInv => Aligned
<1> SUFFICES ASSUME StepInv, AlignInv, calm, Quiet PROVE Aligned
  BY DEF Aligned
<1>1. PICK a \in Changers : RegistryFits /\ Fits(a)
  BY DEF AlignInv
<1>2. /\ ServersSettled /\ Registered(CustomRefs) /\ live = SavedModel
      /\ \A c \in Refs : By(c) \in {"server", "custom"} => c \in policies
  BY <1>1, QuietFits DEF Quiet
<1>3. ControlInv /\ ToolsRight /\ CustomRefs \subseteq Refs
  BY StepParts DEF Refs
<1>4. SavedDefs \in Defs
  BY <1>3, SavedTypes
<1>5. {r \in Refs : By(r) = "server"} = IF tools = Unset THEN {} ELSE tools
  BY <1>1, <1>3, ServersTools DEF RegistryFits
<1>6. IF On(SavedServer)
      THEN tools # Unset /\ \A r \in tools : registry[r].of = SavedServer.url
      ELSE tools = Unset
  BY <1>1, <1>2 DEF ServersSettled, RegistryFits
<1>7. \A r \in CustomRefs : custom[r] = CodeOf(SavedDefs, r)
  BY <1>2 DEF Registered
<1>8. \A r \in CustomRefs :
        IF SavedDefs[r] = Unset THEN By(r) # "custom"
        ELSE By(r) = "custom" /\ Code(registry[r].of) = Code(SavedDefs[r])
  BY <1>1, <1>4, <1>7, CodeType DEF RegistryFits
<1> QED
  BY <1>2, <1>5, <1>6, <1>7, <1>8 DEF Aligned, SavedServer, SavedDefs, SavedModel

\* What is saved is what is used, after requests one at a time and after each
\* start (McpManager.reconcile, CustomToolManager.reconcile, the model's api),
\* where the environment names no server that is switched on: without a saved
\* server that one is used, which Aligned does not know of.
THEOREM AlwaysAligned == ~On(EnvServer) /\ ControlSpec => []Aligned
<1> DEFINE Inv == StepInv /\ AlignInv
<1>1. ControlInit => Inv
  BY ControlInitRight, AlignInit
<1>2. ~On(EnvServer) /\ Inv /\ [ControlNext]_controlVars => Inv'
  BY ControlNextRight, AlignNext
<1>3. Inv => Aligned
  BY AlignedHolds
<1> QED
  <2>1. ASSUME ~On(EnvServer) PROVE Inv /\ [ControlNext]_controlVars => Inv'
    BY <1>2, <2>1
  <2> HIDE DEF Inv
  <2>2. ASSUME ~On(EnvServer) PROVE ControlSpec => []Aligned
    BY <1>1, <1>3, <2>1, <2>2, PTL DEF ControlSpec
  <2> QED
    BY <2>2
=============================================================================
