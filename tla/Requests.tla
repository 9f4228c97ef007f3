------------------------------ MODULE Requests ------------------------------
(***************************************************************************)
(* One HTTP instance and the requests it serves: the configuration it      *)
(* boots with, the throttle, the guards, the Idempotency-Key, the pipes,   *)
(* each endpoint's handler down to its statements, and the filter that     *)
(* turns what is thrown into a problem document.                           *)
(*                                                                         *)
(* A handler is written as the set of its paths, a path as the sequence of *)
(* its steps.  What a query finds is not in the module (Accounts,          *)
(* ReferenceData and the others have it), so each answer of a query is a   *)
(* path of its own; a statement fails at any step of any path.             *)
(***************************************************************************)
EXTENDS Roles, Sequences, FiniteSets, Integers, SequencesExt

CONSTANT
  Route      \* the endpoints tried, by the names of their methods

ASSUME RouteAssumption == "none" \notin Route

VARIABLES
  conf,      \* what the process has made of its environment
  req,       \* the request in hand: its route, who the guards take it to be from, what is odd about its body
  todo,      \* the steps still to come on its path
  trace,     \* what it has done so far
  answer,    \* what the client gets
  outage     \* whether a statement of it has failed

vars == <<conf, req, todo, trace, answer, outage>>

-----------------------------------------------------------------------------
(* Steps and paths *)

Step(do, status, code) == [do |-> do, status |-> status, code |-> code]

\* Paths of A, each followed by paths of B unless it has come to its end.
Ended(p) == p # <<>> /\ Last(p).do \in {"return", "throw", "provider", "error"}
A ** B == {IF Ended(a) THEN a ELSE a \o b : a \in A, b \in B}

Skip == {<<>>}
Do(effect) == {<<Step(effect, 0, "none")>>}
Read == Do("read")
Reply(status) == {<<Step("return", status, "none")>>}
Refuse(status, code) == {<<Step("throw", status, code)>>}
Invalid == Refuse(400, "VALIDATION_ERROR")
\* An HttpException of the framework, whose body has no code; a ProviderError; any other error.
Bare(status) == Refuse(status, "none")
ProviderFails == {<<Step("provider", 0, "none")>>}
Broken == {<<Step("error", 0, "none")>>}

When(condition, paths) == IF condition THEN paths ELSE {}

\* audit.record: an INSERT.
Audit == Do("audit")

Change == {"pending", "account", "login", "verification", "status", "profile", "role", "identifier", "erasure", "entry"}
Effect == Change \cup {"audit", "session", "revoke", "rotate", "code", "guess", "spent", "message"}
Proof == {"proof", "stub"}          \* a provider has vouched for an identity, or a stub has: nothing is stored
Statement == (Effect \ {"message"}) \cup {"read"}

-----------------------------------------------------------------------------
(* Configuration *)

Env == [parses : BOOLEAN, production : BOOLEAN, agentSecret : BOOLEAN, apple : {"none", "some", "all"},
        sms : BOOLEAN, mail : BOOLEAN, telegram : BOOLEAN]

\* validateEnv: what the schema refuses, and what production may not leave out.
Boots(e) ==
  /\ e.parses
  /\ e.production => e.agentSecret /\ e.apple # "some"

\* The factories: an adapter where there are credentials, and a stub in any other case, in production too.
Configured(e) == [up |-> TRUE, production |-> e.production, sms |-> e.sms, mail |-> e.mail, telegram |-> e.telegram]

-----------------------------------------------------------------------------
(* Bodies and parameters *)

Param == {"dataset", "id", "userId", "provider"}
Query == {"includeInactive", "page", "limit", "search"}
Dataset == {"species", "breeds", "cities", "health_certifications", "genetic_markers"}
Provider == {"google", "apple", "telegram", "vk"}

\* The fields that an endpoint needs and those it may have, by its DTO and the parameters of its path.
Takes(need, may) == [need |-> need, may |-> may]
AuthFields(r) ==
  CASE r = "refresh" -> Takes({"refreshToken"}, {})
    [] r = "logout" -> Takes({}, {"refreshToken"})
    [] r = "devToken" -> Takes({"userId"}, {})
    [] OTHER -> Takes({}, {})
IdentityFields(r) == LET optional == {"cityId", "email", "avatarUrl", "preferredLanguage"} IN
  CASE r = "registerPhone" -> Takes({"phone", "fullName"}, optional)
    [] r = "verifyPhone" -> Takes({"phone", "code"}, {})
    [] r = "oauth" -> Takes({"provider", "code", "fullName"}, optional)
    [] r = "updateMe" -> Takes({}, optional \cup {"fullName"})
    [] r = "recoverEmailRequest" -> Takes({"email"}, {})
    [] r = "recoverEmailVerify" -> Takes({"email", "code"}, {})
AdminFields(r) ==
  CASE r = "setRole" -> Takes({"userId", "role"}, {})
    [] r = "rebind" -> Takes({"userId"}, {"newPhone", "oauthProvider", "oauthId", "clear", "reason"})
    [] r = "eraseUser" -> Takes({"userId"}, {})
ReferenceFields(r) ==
  CASE r = "list" -> Takes({"dataset"}, Query)
    [] r = "form" -> Takes({"dataset"}, {})
    [] r \in {"getById", "toggleActive"} -> Takes({"dataset", "id"}, {})
    [] r = "create" -> Takes({"dataset", "nameLocalized"}, {"code", "speciesId", "market", "sortOrder", "isActive"})
    [] r = "update" -> Takes({"dataset", "id"}, {"nameLocalized", "market", "sortOrder", "isActive"})
Fields(r) ==
  CASE r \in {"registerPhone", "verifyPhone", "oauth", "updateMe", "recoverEmailRequest", "recoverEmailVerify"} -> IdentityFields(r)
    [] r \in {"setRole", "rebind", "eraseUser"} -> AdminFields(r)
    [] r \in {"list", "form", "getById", "toggleActive", "create", "update"} -> ReferenceFields(r)
    [] OTHER -> AuthFields(r)

\* Routes whose handler takes no DTO: whatever else is sent is not looked at.
Unchecked == {"whoami", "operatorCheck", "getMe", "deactivate", "reactivate", "eraseMe", "eraseUser",
              "form", "getById", "toggleActive", "live", "ready", "scrape"}

\* Conversion makes something of any value (Boolean("false") is true), or there is no bound to break.
Lenient(r) == {"includeInactive", "clear", "isActive"} \cup When(r = "logout", {"refreshToken"})

\* Whole numbers have no upper bound in the DTOs, as the column has; free text may hold a NUL, which PostgreSQL does not
\* store and does not compare with; a provider's payload is any string.
Elusive(r) == {"cityId", "speciesId", "sortOrder", "page", "limit", "id"}
  \cup {"fullName", "avatarUrl", "nameLocalized", "search", "oauthId", "reason"} \cup When(r = "oauth", {"code"})

\* The path and the query are strings; String(v) and Number(v) fail for an object whose toString is no function, Boolean(v) never.
Convertible == Param \cup Query \cup {"isActive", "clear"}

\* What the path names: a dataset or a provider where the route has one.
Subjects(r) == LET f == Fields(r).need IN
  (When("dataset" \in f, Dataset) \cup When("provider" \in f, Provider)) \cup {"other"}

\* Bodies with at most one irregularity: a field left out, null, not what its validator asks, one that passes
\* all the same and is not what the code behind expects, one that cannot be converted, or a field too many.
Bodies(r) == LET f == Fields(r) IN
  {b \in [has : {h \cup m : h \in {f.need} \cup {f.need \ {x} : x \in f.need \ Param}, m \in SUBSET f.may},
          odd : f.need \cup f.may \cup {"none"},
          class : {"fit", "extra", "null", "malformed", "unexpected", "unreadable"},
          subject : Subjects(r)] :
     /\ b.class \in {"fit", "extra"} <=> b.odd = "none"
     /\ b.class = "extra" => r \notin Unchecked
     /\ b.class \notin {"fit", "extra"} => b.odd \in b.has
     /\ b.class = "null" => b.odd \notin Param \cup Query
     /\ b.class = "malformed" => b.odd \notin Lenient(r) \cup {"provider"}
     /\ b.class = "unexpected" => b.odd \in Elusive(r)
     /\ b.class = "unreadable" => r \notin Unchecked /\ b.odd \notin Convertible}

Null(b, f) == b.odd = f /\ b.class = "null"
Unexpected(b, f) == b.odd = f /\ b.class = "unexpected"

\* ParseDatasetPipe
KnownDataset(b) == "dataset" \in b.has => b.subject \in Dataset

\* The pipes: the parsers of the path, and ValidationPipe with the DTO (@IsOptional lets a null pass).
Accepted(r, b) ==
  /\ Fields(r).need \subseteq b.has
  /\ KnownDataset(b)
  /\ b.class \notin {"malformed", "extra"}
  /\ b.class = "null" => b.odd \in Fields(r).may

-----------------------------------------------------------------------------
(* Before the handler *)

\* @Public, on methods of three controllers and on two controllers.
AuthPublic == {"refresh", "devToken"}
IdentityPublic == {"registerPhone", "verifyPhone", "oauth", "recoverEmailRequest", "recoverEmailVerify"}
ReferencePublic == {"list", "getById"}
HealthPublic == {"live", "ready"}
MetricsPublic == {"scrape"}
Public == AuthPublic \cup IdentityPublic \cup ReferencePublic \cup HealthPublic \cup MetricsPublic

\* seeded fault: an endpoint of the registry without its @Roles
ReferenceRoleButForToggle(r) == When(r \in {"form", "create", "update"}, {"ADMIN"})

\* @Roles, on AdminUserController, on four methods of ReferenceDataController and on one of AuthController; @CheckPolicies.
AdminUserRole(r) == When(r \in {"setRole", "rebind", "eraseUser"}, {"ADMIN"})
ReferenceRole(r) == When(r \in {"form", "create", "update", "toggleActive"}, {"ADMIN"})
OperatorRole(r) == When(r = "operatorCheck", {"MODERATOR"})
RequiredRole(r) == AdminUserRole(r) \cup ReferenceRole(r) \cup OperatorRole(r)
RequiredPolicy(r) == IF r = "operatorCheck" THEN {<<"read", "ModerationQueue">>} ELSE {}

\* The throttler, before the guards of AuthModule; its counters are in Redis.
Throttle(r) == IF r = "scrape" THEN Skip ELSE Read ** (Bare(429) \cup Skip)

\* The one authenticator there is; a credential is "none", "bad", or a role in a valid access token.
TryAuthenticate(cred) == IF cred \in Role THEN cred ELSE "nobody"

\* JwtAuthGuard; that no authenticator knows the credential and that one rejects it are one answer.
Authenticate(r, cred) ==
  IF r \in Public \/ TryAuthenticate(cred) # "nobody" THEN Skip ELSE Refuse(401, "UNAUTHENTICATED")

\* OptionalJwtGuard, on two public routes, forgets a bad token.
OptionalPrincipal(cred) == TryAuthenticate(cred)

\* req.user, which handlers take for the caller.
Principal(r, cred) ==
  CASE r \in {"list", "getById"} -> OptionalPrincipal(cred)
    [] r \in Public \ {"list", "getById"} -> "nobody"
    [] OTHER -> TryAuthenticate(cred)

CheckRole(r, user) ==
  IF RequiredRole(r) = {} \/ \E q \in RequiredRole(r) : RoleSatisfies(user, q) THEN Skip ELSE Refuse(403, "FORBIDDEN")

\* Of the abilities, the unconditional ones of the queue that a route asks about.
Can(user, action, subject) ==
  \/ user = "ADMIN"
  \/ user = "MODERATOR" /\ (action = "read" \/ subject = "ModerationDecision")
CheckPolicy(r, user) ==
  IF \A p \in RequiredPolicy(r) : Can(user, p[1], p[2]) THEN Skip ELSE Refuse(403, "FORBIDDEN")

\* IdempotencyInterceptor, on one route: no header, a key not stored, stored with this request, or with another.
Replay(r) ==
  IF r # "create" THEN Skip
  ELSE Skip \cup Read ** (Skip \cup Reply(201) \cup Refuse(422, "IDEMPOTENCY_KEY_REUSED"))

Admission(r, cred) == LET user == Principal(r, cred) IN
  Throttle(r) ** Authenticate(r, cred) ** CheckRole(r, user) ** CheckPolicy(r, user) ** Replay(r)

-----------------------------------------------------------------------------
(* What handlers share *)

\* OtpService: a code is stored, or there is a cooldown; verify counts a guess, spends the code, or is locked out.
IssueCode == Read ** (Refuse(429, "RATE_LIMITED") \cup Do("code"))
Guess == Do("guess")
LockedOut == Read ** (Skip \cup Guess)
SpendCode == Do("spent")

\* fetchJson: no answer in time, a status that is not 2xx, a body that is not JSON, or one that says it was rejected.
FetchJson == Skip \cup ProviderFails

\* The adapters, or a stub that only logs. That SMS.RU did not take the message is in what sendSms returns, and nobody looks.
SendSms == IF conf.sms THEN FetchJson ** Do("message") ELSE Do("message")
SendEmail == IF conf.mail THEN FetchJson ** Do("message") ELSE Do("message")

\* AuthService.issueSession, with the eviction of families over the cap.
IssueSession == Read ** (Skip \cup Do("revoke")) ** Do("session")
Logout == Do("revoke")

\* seeded fault: a foreign key that does not exist is not told from any other error
InsertAccountOrBreak(kind, b, given) ==
  Do(kind) \cup When("cityId" \in b.has, Broken)

\* INSERT INTO users, but for P2002, of fields written as they are given: a city that does not exist, a value that cannot
\* be stored.
InsertAccount(kind, b, given) ==
  IF b.class = "unexpected" /\ b.odd \in given THEN Broken
  ELSE Do(kind) \cup When("cityId" \in b.has /\ ~Null(b, "cityId"), Invalid)

\* assertIfMatch
IfMatch == Skip \cup Refuse(428, "PRECONDITION_REQUIRED") \cup Refuse(412, "STALE_RESOURCE")

-----------------------------------------------------------------------------
(* IdentityController *)

RegisterPhone(b) ==
  Read ** (Refuse(409, "CONFLICT")
           \cup (Skip \cup InsertAccount("pending", b, {"cityId", "fullName", "avatarUrl"}) \cup Refuse(409, "CONFLICT"))
                ** IssueCode ** SendSms ** Audit ** Reply(202))

VerifyPhone ==
  Read ** (Invalid
           \cup Refuse(409, "CONFLICT")
           \cup LockedOut ** Do("verification") ** Audit ** Refuse(429, "RATE_LIMITED")
           \cup Guess ** Read ** Do("verification") ** Audit ** Refuse(400, "INVALID_OTP")
           \cup SpendCode ** Do("status") ** Audit ** IssueSession ** Reply(200))

\* The adapters' verify; a payload that is JSON of another shape breaks the check, or the query that looks for its id.
TelegramVerify(b) == IF Unexpected(b, "code") THEN Broken ELSE Do("proof") \cup Refuse(401, "UNAUTHENTICATED")
StubVerify(b) == Do("stub") ** (IF Unexpected(b, "code") THEN Broken ELSE Skip)

\* seeded fault: the stub stands in for a provider that is not configured, in production too
ResolveAnywhere(b) ==
  IF b.subject \notin Provider THEN Invalid
  ELSE IF b.subject = "telegram" /\ conf.telegram THEN TelegramVerify(b) ELSE StubVerify(b)

\* OAuthRegistry.resolve and the verify of what it returns; Telegram is the only provider with an adapter.
Resolve(b) ==
  IF b.subject \notin Provider THEN Invalid
  ELSE IF b.subject = "telegram" /\ conf.telegram THEN TelegramVerify(b)
  ELSE IF conf.production THEN Refuse(503, "UPSTREAM_UNAVAILABLE")
  ELSE StubVerify(b)

\* Name and picture come from the provider, if it has them, and may not fit the column; a row that made the id a duplicate may be gone
\* when it is looked for.
OAuth(b) == LET
    found == (Refuse(403, "FORBIDDEN") \cup Do("login")) ** Audit ** IssueSession ** Reply(200)
    created == InsertAccount("account", b, {"cityId"}) ** Audit ** IssueSession ** Reply(201)
  IN Resolve(b) ** Read ** (found \cup created \cup Broken \cup Read ** (found \cup Broken))

\* RecoveryService
RecoverEmailRequest ==
  Read ** (Reply(202) \cup IssueCode ** SendEmail ** Audit ** Reply(202))

RecoverEmailVerify ==
  Read ** (Refuse(400, "INVALID_OTP")
           \cup LockedOut ** Audit ** Refuse(429, "RATE_LIMITED")
           \cup Guess ** Refuse(400, "INVALID_OTP")
           \cup SpendCode ** (Refuse(403, "FORBIDDEN")
                              \cup (Do("status") \cup Do("login")) ** Audit ** IssueSession ** Reply(200)))

-----------------------------------------------------------------------------
(* AuthController *)

\* Unknown or expired; reused, which burns the family; rotated, and then refused for the account's sake or not.
Refresh ==
  Read ** (Refuse(401, "UNAUTHENTICATED")
           \cup Do("revoke") ** Refuse(401, "UNAUTHENTICATED")
           \cup Do("rotate") ** Read ** (Reply(200) \cup Do("revoke") ** Refuse(401, "UNAUTHENTICATED")))

\* Of one token's family, which may not exist, or of all.
LogoutRoute(b) ==
  (IF "refreshToken" \in b.has /\ ~Null(b, "refreshToken") THEN Read ** (Skip \cup Logout) \cup Logout ELSE Logout) ** Reply(204)

DevToken ==
  IF conf.production THEN Refuse(404, "NOT_FOUND")
  ELSE Read ** (Refuse(404, "NOT_FOUND") \cup IssueSession ** Reply(201))

-----------------------------------------------------------------------------
(* MeController, ProfileService *)

LoadMe == Read ** (Skip \cup Refuse(401, "UNAUTHENTICATED"))

\* matchesIfNoneMatch
Conditional == Reply(200) \cup Reply(304)

GetMe == LoadMe ** Conditional

UpdateMe(b) ==
  LoadMe ** IfMatch **
    (IF b.has = {} THEN Reply(200)
     ELSE IF Null(b, "fullName") \/ Null(b, "preferredLanguage") \/ b.class = "unexpected" THEN Broken
     ELSE When("cityId" \in b.has /\ ~Null(b, "cityId"), Invalid) \cup Do("profile") ** Audit ** Reply(200))

Deactivate ==
  LoadMe ** (Reply(200) \cup Refuse(409, "CONFLICT") \cup Do("status") ** Logout ** Audit ** Reply(200))

Reactivate == LoadMe ** (Invalid \cup Do("status") ** Audit ** Reply(200))

EraseMe == LoadMe ** (Skip \cup Do("status") ** Logout) ** Audit ** Reply(202)

-----------------------------------------------------------------------------
(* AdminUserController *)

LoadTarget == Read ** (Skip \cup Refuse(404, "NOT_FOUND"))

\* seeded fault: a change of role is audited only when sessions were left to revoke
SetRoleAuditsSome ==
  LoadTarget ** (Reply(200) \cup Do("role") ** (Skip \cup Logout ** Audit) ** Reply(200))

SetRole == LoadTarget ** (Reply(200) \cup Do("role") ** Logout ** Audit ** Reply(200))

\* @IsOptional lets null through, which is not undefined: a null newPhone is a phone number that does not parse, a null
\* oauthProvider a column that does not exist, and a clear that is there may be false.  The reason goes into the audit row
\* only: one that cannot be stored breaks it after the change.
Rebind(b) == LET
    record == IF Unexpected(b, "reason") THEN Broken ELSE Audit
    write == (Refuse(409, "CONFLICT") \cup Do("identifier")) ** Logout ** record ** Reply(200)
    mayClear == "clear" \in b.has /\ ~Null(b, "clear")
    bind == IF "oauthId" \notin b.has \/ Null(b, "oauthId") THEN Invalid
            ELSE IF Null(b, "oauthProvider") \/ Unexpected(b, "oauthId") THEN Broken ELSE Invalid \cup write
  IN LoadTarget **
     (IF "newPhone" \in b.has <=> "oauthProvider" \in b.has THEN Invalid
      ELSE IF "newPhone" \in b.has THEN (IF Null(b, "newPhone") THEN Invalid ELSE write)
      ELSE bind \cup When(mayClear, IF Null(b, "oauthProvider") THEN Broken ELSE write))

EraseUser == LoadTarget ** (Reply(200) \cup Do("erasure") ** Logout ** Audit ** Reply(200))

-----------------------------------------------------------------------------
(* ReferenceDataController *)

\* CAPS: the columns a dataset has besides those that all have.
Caps(dataset) ==
  CASE dataset = "species" -> {"code", "market"}
    [] dataset = "breeds" -> {"code", "speciesId"}
    [] dataset = "cities" -> {}
    [] dataset \in {"health_certifications", "genetic_markers"} -> {"code", "market"}

\* The template of the create form is made of CAPS.
Form == Reply(200)

\* findMany and count are sent together.
List(b) == IF b.class = "unexpected" THEN Broken ELSE Read ** Reply(200)

Entry(b) == IF Unexpected(b, "id") THEN Broken ELSE Read ** (Skip \cup Refuse(404, "NOT_FOUND"))

\* A field not for this dataset, a missing one, a name that is empty in both languages, a species that does not exist.
\* Null is neither undefined nor a value: no code, and no species that a query could look for.
Create(b) == LET
    caps == Caps(b.subject)
    own == {"code", "speciesId", "market"}
    wanting == \/ ~((b.has \cap own) \subseteq caps)
               \/ "code" \in caps /\ ("code" \notin b.has \/ Null(b, "code"))
               \/ "speciesId" \in caps /\ "speciesId" \notin b.has
    species == IF "speciesId" \notin caps THEN Skip
               ELSE IF Null(b, "speciesId") \/ Unexpected(b, "speciesId") THEN Broken ELSE Read ** (Skip \cup Invalid)
  IN IF wanting THEN Invalid
     ELSE (Skip \cup Invalid) ** species **
          (IF Null(b, "market") \/ Unexpected(b, "sortOrder") \/ Unexpected(b, "nameLocalized") THEN Broken
           ELSE Refuse(409, "CONFLICT") \cup Do("entry") ** Audit ** Reply(201))

\* Two datasets are unique in (market, code), and the UPDATE does not expect a duplicate.
Update(b) == LET fields == b.has \ Param IN
  Entry(b) ** IfMatch **
    (IF "market" \in b.has /\ "market" \notin Caps(b.subject) THEN Invalid
     ELSE IF fields = {} THEN Invalid
     ELSE (IF "nameLocalized" \in fields /\ ~Null(b, "nameLocalized") THEN Skip \cup Invalid ELSE Skip) **
          (IF b.class \in {"null", "unexpected"} THEN Broken
           ELSE When("market" \in fields /\ b.subject \in {"health_certifications", "genetic_markers"}, Broken)
                \cup Do("entry") ** Audit ** Reply(200)))

ToggleActive(b) == Entry(b) ** Do("entry") ** Audit ** Reply(200)

-----------------------------------------------------------------------------
(* HealthController: a probe answers for its own failure, and Terminus throws an exception of the framework *)

PrismaHealthy == Skip \cup Bare(503)
RedisHealthy == Skip \cup Bare(503)
Ready == PrismaHealthy ** RedisHealthy ** Reply(200)

-----------------------------------------------------------------------------
(* The controllers *)

IdentityController(r, b) ==
  When(r = "registerPhone", RegisterPhone(b))
  \cup When(r = "verifyPhone", VerifyPhone)
  \cup When(r = "oauth", OAuth(b))
  \cup When(r = "recoverEmailRequest", RecoverEmailRequest)
  \cup When(r = "recoverEmailVerify", RecoverEmailVerify)

AuthController(r, b) ==
  When(r = "refresh", Refresh)
  \cup When(r = "logout", LogoutRoute(b))
  \cup When(r \in {"whoami", "operatorCheck"}, Reply(200))
  \cup When(r = "devToken", DevToken)

MeController(r, b) ==
  When(r = "getMe", GetMe)
  \cup When(r = "updateMe", UpdateMe(b))
  \cup When(r = "deactivate", Deactivate)
  \cup When(r = "reactivate", Reactivate)
  \cup When(r = "eraseMe", EraseMe)

AdminUserController(r, b) ==
  When(r = "setRole", SetRole)
  \cup When(r = "rebind", Rebind(b))
  \cup When(r = "eraseUser", EraseUser)

ReferenceDataController(r, b) ==
  When(r = "list", List(b))
  \cup When(r = "form", Form)
  \cup When(r = "getById", Entry(b) ** Reply(200))
  \cup When(r = "create", Create(b))
  \cup When(r = "update", Update(b))
  \cup When(r = "toggleActive", ToggleActive(b))

HealthController(r) ==
  When(r = "live", Reply(200)) \cup When(r = "ready", Ready)
MetricsController(r) == When(r = "scrape", Reply(200))

Handler(r, b) ==
  IdentityController(r, b) \cup AuthController(r, b) \cup MeController(r, b) \cup AdminUserController(r, b)
    \cup ReferenceDataController(r, b) \cup HealthController(r) \cup MetricsController(r)

\* The pipes of the path and of the body run together, and the first to fail answers.
Handling(r, b) ==
  IF b.class = "unreadable" THEN Broken \cup When(~KnownDataset(b), Bare(400))
  ELSE IF Accepted(r, b) THEN Handler(r, b) ELSE Bare(400)

-----------------------------------------------------------------------------
(* The process *)

\* codeForStatus
CodeFor(status) ==
  CASE status = 400 -> "VALIDATION_ERROR"
    [] status = 401 -> "UNAUTHENTICATED"
    [] status = 403 -> "FORBIDDEN"
    [] status = 404 -> "NOT_FOUND"
    [] status = 409 -> "CONFLICT"
    [] status = 412 -> "STALE_RESOURCE"
    [] status = 429 -> "RATE_LIMITED"
    [] status = 500 -> "INTERNAL"
    [] status = 503 -> "UPSTREAM_UNAVAILABLE"
    [] OTHER -> IF status >= 500 THEN "INTERNAL" ELSE "ERROR"

\* seeded fault: what a provider throws is passed on as the error of a gateway
ProblemAsGateway(x) == LET
    status == IF x.do = "throw" THEN x.status ELSE IF x.do = "provider" THEN 502 ELSE 500
  IN [status |-> status, code |-> IF x.do = "throw" /\ x.code # "none" THEN x.code ELSE CodeFor(status)]

\* ProblemExceptionFilter, on an HttpException with a code or without, a ProviderError, and anything else.
Problem(x) == LET
    status == IF x.do = "throw" THEN x.status ELSE IF x.do = "provider" THEN 503 ELSE 500
  IN [status |-> status, code |-> IF x.do = "throw" /\ x.code # "none" THEN x.code ELSE CodeFor(status)]

Unanswered == [status |-> 0, code |-> "none"]
NoRequest == [route |-> "none", user |-> "nobody", class |-> "fit", subject |-> "other"]

Init ==
  /\ conf = [up |-> FALSE, production |-> FALSE, sms |-> FALSE, mail |-> FALSE, telegram |-> FALSE]
  /\ req = NoRequest /\ todo = <<>> /\ trace = <<>>
  /\ answer = Unanswered /\ outage = FALSE

Boot(e) ==
  /\ ~conf.up /\ Boots(e)
  /\ conf' = Configured(e)
  /\ UNCHANGED <<req, todo, trace, answer, outage>>

Arrive(r, cred) ==
  /\ conf.up /\ req = NoRequest
  /\ req' = [NoRequest EXCEPT !.route = r, !.user = Principal(r, cred)]
  /\ todo' \in Admission(r, cred)
  /\ UNCHANGED <<conf, trace, answer, outage>>

\* Express parses the body before Nest knows the route's guards, with the defaults that main.ts leaves: text that is not JSON
\* becomes a 400, and a body over the limit, or in a charset it has not, an error that is no HttpException.
Garbled(r) ==
  /\ conf.up /\ req = NoRequest
  /\ req' = [NoRequest EXCEPT !.route = r, !.class = "unreadable"]
  /\ todo' \in Bare(400) \cup Broken
  /\ UNCHANGED <<conf, trace, answer, outage>>

\* The guards and the interceptor have let it pass.
Enter ==
  /\ req # NoRequest /\ todo = <<>> /\ answer = Unanswered
  /\ \E b \in Bodies(req.route) :
       /\ req' = [req EXCEPT !.class = b.class, !.subject = b.subject]
       /\ todo' \in Handling(req.route, b)
  /\ UNCHANGED <<conf, trace, answer, outage>>

Traced(do) == IF do = "read" THEN trace ELSE Append(trace, do)

Perform ==
  /\ todo # <<>> /\ ~Ended(<<Head(todo)>>)
  /\ trace' = Traced(Head(todo).do)
  /\ todo' = Tail(todo)
  /\ UNCHANGED <<conf, req, answer, outage>>

\* PostgreSQL or Redis does not do it, or does and the answer is lost.
StatementFails ==
  /\ todo # <<>> /\ Head(todo).do \in Statement
  /\ trace' \in {trace, Traced(Head(todo).do)}
  /\ todo' = <<Step("error", 0, "none")>>
  /\ outage' = TRUE
  /\ UNCHANGED <<conf, req, answer>>

Answer ==
  /\ todo # <<>> /\ Ended(<<Head(todo)>>)
  /\ answer' = IF Head(todo).do = "return" THEN [status |-> Head(todo).status, code |-> "none"] ELSE Problem(Head(todo))
  /\ todo' = <<>>
  /\ UNCHANGED <<conf, req, trace, outage>>

Close ==
  /\ answer # Unanswered
  /\ req' = NoRequest /\ trace' = <<>> /\ answer' = Unanswered /\ outage' = FALSE
  /\ UNCHANGED <<conf, todo>>

Next ==
  \/ \E e \in Env : Boot(e)
  \/ \E r \in Route, cred \in Role \cup {"none", "bad"} : Arrive(r, cred)
  \/ \E r \in Route : Garbled(r)
  \/ Enter \/ Perform \/ StatementFails \/ Answer \/ Close

Spec == Init /\ [][Next]_vars

-----------------------------------------------------------------------------
(* Properties *)

\* Types, with the statuses that a client can meet.
TypeOK ==
  /\ conf \in [up : BOOLEAN, production : BOOLEAN, sms : BOOLEAN, mail : BOOLEAN, telegram : BOOLEAN]
  /\ req.route \in Route \cup {"none"} /\ req.user \in Role \cup {"nobody"}
  /\ \A i \in DOMAIN trace : trace[i] \in Effect \cup Proof
  /\ answer.status \in {0, 200, 201, 202, 204, 304, 400, 401, 403, 404, 409, 412, 422, 428, 429, 500, 503}
  /\ outage \in BOOLEAN

\* Every endpoint keeps the promises of Endpoint, whatever fails and whatever the body: a request is answered once; it succeeds
\* only after an audit row has followed the last change it made; a refusal leaves counters, burnt codes and sessions or a pending
\* account, and nothing else; a problem has a code that belongs to its status.
E == INSTANCE Endpoint WITH
       Effect <- Effect,
       Change <- Change,
       Tolerated <- {"pending", "verification", "guess", "spent", "revoke", "rotate"},
       done <- ToSet(trace) \ Proof,
       unrecorded <- {trace[i] : i \in {j \in DOMAIN trace : \A k \in j .. Len(trace) : trace[k] # "audit"}} \cap Change,
       reply <- answer
Promise == E!Spec

\* A session comes of a code that was sent and spent, of a payload signed by the provider, or of a process that is not in
\* production (identity.service.ts:165-170 and 252-257, recovery.service.ts:145-150, auth.controller.ts:64-79, oauth.registry.ts:17-32).
IdentityIsProven ==
  \A i \in DOMAIN trace : trace[i] = "session" =>
     \/ ~conf.production
     \/ \E j \in 1 .. i : trace[j] \in {"spent", "proof"}

\* The guards stand before every handler that needs them: what only an ADMIN may do is done for an ADMIN's token, and no one's
\* profile is changed without a token (the @Roles of two controllers, jwt-auth.guard.ts:36-55, roles.guard.ts:31-44).
ChangesAreAuthorised ==
  \A i \in DOMAIN trace :
     /\ trace[i] \in {"role", "identifier", "erasure", "entry"} => req.user = "ADMIN"
     /\ trace[i] = "profile" => req.user # "nobody"

\* Where nothing fails, an internal error has one of five causes: a body that is not parsed or not converted, a value that its
\* validator accepts and the code behind does not, a null that @IsOptional lets through on four routes, what a provider says or
\* a vanished row at an OAuth registration, and a duplicate made by a PATCH.  A field left out, refused by its validator or
\* not known, a city or a code that is taken or not there, is never one (problem.filter.ts:33-38, main.ts:25-33).
InternalHasCause ==
  answer.status = 500 =>
     \/ outage
     \/ req.class \in {"unreadable", "unexpected"}
     \/ req.class = "null" /\ req.route \in {"updateMe", "rebind", "create", "update"}
     \/ req.route = "oauth"
     \/ req.route = "update" /\ req.subject \in {"health_certifications", "genetic_markers"}
=============================================================================
