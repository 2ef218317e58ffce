------------------------------- MODULE Calls --------------------------------
(***************************************************************************)
(* The components whose calls share no state with each other's: a          *)
(* behaviour is of one of them, named by part, and knows the variables s1  *)
(* to s8 by that component's names.  The request log's keep theirs.        *)
(***************************************************************************)
EXTENDS HttpLog, Integers

CONSTANTS Nothing,                                     \* no value of any component's
          Fields, Chains, Times, Failures,             \* Gql
          Pools,                                       \* Cognito
          Administered, User,                          \* Accounts: its calls and users
          Caller, Hour, Skew, MaxClock,                \* NtpTime
          Page, Invalid, Expiry, DurationBits, MaxTime, MaxLinks,    \* UrlSigner
          Request, Tokens, Keys, Now, Leeway, Issuer, Audience,      \* Jwt
          Action, Host, Trusted, Score, MinScore,      \* Captcha
          Origins, Lists,                              \* Cors
          Address, Domains, AddressLists,              \* Mailer
          Buffer, MaxBytes,                            \* Migrate
          Value, IntBits, Year0, Year10000, Texts, Limits   \* Values

(* Times are in seconds.                                                   *)
ASSUME JwtAssumption == /\ Now \in Int /\ Leeway \in Int
                        /\ \A t \in Tokens : /\ t.claims.from \subseteq Int
                                             /\ t.claims.until \subseteq Int

ASSUME NtpAssumption == /\ Hour \in Nat \ {0} /\ MaxClock \in Nat
                        /\ Skew \subseteq Int /\ "nobody" \notin Caller

ASSUME CaptchaAssumption == Nothing \notin Action

ASSUME MigrateAssumption == Buffer \in Nat /\ MaxBytes \in Nat

(* A field is nothing or has a Go type, and numbers for what there is to   *)
(* compare.  A chain is a list of the directives that there are, with      *)
(* numbers for limits; an error has layers, of which the library's are     *)
(* GraphQL errors, and a client's has a code, but not that of the          *)
(* unexpected.                                                             *)
ASSUME GqlAssumption ==
  /\ Times \subseteq Int
  /\ \A f \in Fields :
       /\ f.type \in {"absent", "nil", "string", "time", "int", "number", "decimal", "list"}
       /\ f.n \in Int /\ f.bytes \in Int
  /\ \A rules \in Chains :
       /\ rules \in Seq({rules[j] : j \in DOMAIN rules})
       /\ \A j \in DOMAIN rules :
            /\ rules[j].directive \in {"string", "date", "decimal", "int", "array"}
            /\ rules[j].min \cup rules[j].max \subseteq Int
            /\ rules[j].minNow \cup rules[j].maxNow \subseteq Int
  /\ \A e \in Failures :
       /\ e # <<>> /\ e \in Seq({e[j] : j \in DOMAIN e})
       /\ \A j \in DOMAIN e : e[j].kind = "client" => e[j].code \notin {"500", "none"}
       /\ e[1].code \in {"GRAPHQL_VALIDATION_FAILED", "GRAPHQL_PARSE_FAILED"} => e[1].kind = "gql"

(* A page is a list of users.                                              *)
ASSUME CognitoAssumption ==
  \A pool \in Pools :
    /\ pool # <<>>
    /\ pool \in Seq(Seq(UNION {{pool[p][n] : n \in DOMAIN pool[p]} : p \in DOMAIN pool}))

(* An address has a part, and further ones if there is an @.               *)
ASSUME MailAssumption == /\ AddressLists \subseteq Seq(Address)
                         /\ Address \subseteq Seq(STRING) \ {<<>>}

(* The pieces of a path are strings.  What the powers of two are to a      *)
(* duration of some width.                                                 *)
ASSUME UrlAssumption == /\ Page \subseteq [before : Seq(STRING), path : STRING]
                        /\ Expiry \subseteq Int /\ 2^(DurationBits - 1) \in Nat \ {0}
                        /\ 2^DurationBits = 2 * 2^(DurationBits - 1)
                        /\ MaxTime \in Nat

(* Characters are strings.                                                 *)
ASSUME CorsAssumption == Origins \subseteq Seq(STRING) /\ Lists \subseteq Seq(Seq(STRING))

(* Times are numbers, and a year begins with a day; a text is as long as   *)
(* it has runes, of up to four bytes.  What the powers of two are to an    *)
(* int32.                                                                  *)
ASSUME ValuesAssumption == /\ Value \subseteq Int /\ Year10000 \in Int
                           /\ Year0 \in Int /\ Year0 % 4 = 0
                           /\ 2^(IntBits - 1) \in Nat /\ 2^IntBits \in Nat \ {0}
                           /\ Texts \subseteq Seq(1..4) /\ Limits \subseteq Nat

(* A slice that is shared is no call's own.                                *)
ASSUME AccountsAssumption ==
  /\ "shared" \notin Administered /\ Nothing \notin User
  /\ Nothing \notin [what : {"create", "get", "resend", "reset"}, user : User,
                     slice : Administered \cup {"shared"}]
  /\ Nothing \notin [email : User, password : Administered]

VARIABLES part, s1, s2, s3, s4, s5, s6, s7, s8

calls == <<s1, s2, s3, s4, s5, s6, s7, s8>>

(* The variables from the nth on are not used.                             *)
Rest8 == s8 = Nothing
Rest7 == s7 = Nothing /\ Rest8
Rest6 == s6 = Nothing /\ Rest7
Rest5 == s5 = Nothing /\ Rest6
Rest4 == s4 = Nothing /\ Rest5
Rest3 == s3 = Nothing /\ Rest4
Rest1 == s1 = Nothing /\ s2 = Nothing /\ Rest3

-----------------------------------------------------------------------------
Gql == INSTANCE Gql WITH
  field <- s1, rules <- s2, chain <- s3, now <- s4, state <- s5, ran <- s6, err <- s7, reply <- s8

Cognito == INSTANCE Cognito WITH
  pages <- s1, page <- s2, i <- s3, users <- s4, state <- s5

Accounts == INSTANCE Accounts WITH
  Call <- Administered, pool <- s1, asks <- s2, heap <- s3, pc <- s4

NtpTime == INSTANCE NtpTime WITH
  MaxTime <- MaxClock,
  clock <- s1, mut <- s2, stored <- s3, pc <- s4, now <- s5, given <- s6, measured <- s7, basis <- s8

UrlSigner == INSTANCE UrlSigner WITH
  Bits <- DurationBits, now <- s1, issued <- s2

Jwt == INSTANCE Jwt WITH
  auth <- s1, token <- s2, pc <- s3, heap <- s4, answers <- s5, saw <- s6

Captcha == INSTANCE Captcha WITH
  form <- s1, asked <- s2, reply <- s3, result <- s4

Cors == INSTANCE Cors WITH
  origin <- s1, allowedOrigins <- s2, result <- s3

Mailer == INSTANCE Mailer WITH
  mail <- s1, safe <- s2, sent <- s3, warned <- s4, result <- s5

Migrate == INSTANCE Migrate WITH
  command <- s1, input <- s2, typed <- s3, unread <- s4, reader <- s5, left <- s6,
  answers <- s7, pc <- s8

Values == INSTANCE Values WITH
  Bits <- IntBits, type <- s1, given <- s2, column <- s3, loaded <- s4, wire <- s5, back <- s6,
  cut <- s7, state <- s8

-----------------------------------------------------------------------------
LogRests == Init /\ ~failed

CallsInit ==
  \/ part = "log" /\ Init /\ Rest1
  \/ /\ LogRests
     /\ \/ part = "gql" /\ Gql!Init
        \/ part = "list" /\ Cognito!Init /\ Rest6
        \/ part = "accounts" /\ Accounts!Init /\ Rest5
        \/ part = "ntp" /\ NtpTime!Init
        \/ part = "url" /\ UrlSigner!Init /\ Rest3
        \/ part = "jwt" /\ Jwt!Init /\ Rest7
        \/ part = "captcha" /\ Captcha!Init /\ Rest5
        \/ part = "cors" /\ Cors!Init /\ Rest4
        \/ part = "mail" /\ Mailer!Init /\ Rest6
        \/ part = "migrate" /\ Migrate!Init
        \/ part = "values" /\ Values!Init

CallsNext ==
  /\ UNCHANGED part
  /\ \/ part = "log" /\ Next /\ UNCHANGED calls
     \/ /\ UNCHANGED vars
        /\ \/ part = "gql" /\ Gql!Next
           \/ part = "list" /\ Cognito!Next /\ UNCHANGED <<s6, s7, s8>>
           \/ part = "accounts" /\ Accounts!Next /\ UNCHANGED <<s5, s6, s7, s8>>
           \/ part = "ntp" /\ NtpTime!Next
           \/ part = "url" /\ UrlSigner!Next /\ UNCHANGED <<s3, s4, s5, s6, s7, s8>>
           \/ part = "jwt" /\ Jwt!Next /\ UNCHANGED <<s7, s8>>
           \/ part = "captcha" /\ Captcha!Next /\ UNCHANGED <<s5, s6, s7, s8>>
           \/ part = "cors" /\ Cors!Next /\ UNCHANGED <<s4, s5, s6, s7, s8>>
           \/ part = "mail" /\ Mailer!Next /\ UNCHANGED <<s6, s7, s8>>
           \/ part = "migrate" /\ Migrate!Next
           \/ part = "values" /\ Values!Next

CallsSpec == CallsInit /\ [][CallsNext]_<<part, vars, calls>>

-----------------------------------------------------------------------------
(* The type invariant of each.                                             *)
CallsTypeOK == /\ TypeOK
               /\ CASE part = "log" -> Rest1
                    [] part = "gql" -> Gql!TypeOK
                    [] part = "list" -> Cognito!TypeOK
                    [] part = "accounts" -> Accounts!TypeOK
                    [] part = "ntp" -> NtpTime!TypeOK
                    [] part = "url" -> UrlSigner!TypeOK
                    [] part = "jwt" -> Jwt!TypeOK
                    [] part = "captcha" -> Captcha!TypeOK
                    [] part = "cors" -> Cors!TypeOK
                    [] part = "mail" -> Mailer!TypeOK
                    [] part = "migrate" -> Migrate!TypeOK
                    [] part = "values" -> Values!TypeOK

(* graphql.go: a resolver sees only values that its directives admit.      *)
ResolvedIsValid == part = "gql" => Gql!ResolvedIsValid

(* graphql.go: a client reads the errors that are meant for it, and no     *)
(* others.                                                                 *)
ErrorsFindTheirReader == part = "gql" => Gql!NothingLeaks /\ Gql!RefusalIsExplained

(* cognito.go: a listing that succeeds has every user.                     *)
ListIsComplete == part = "list" => Cognito!ListIsComplete

(* cognito.go: a user is created with its own email.                       *)
EmailIsTheirOwn == part = "accounts" => Accounts!EmailIsTheirOwn

(* ntp_time.go: the offset was measured less than an hour ago.             *)
OffsetIsFresh == part = "ntp" => NtpTime!OffsetIsFresh

(* url_signer.go: a link passes if it was signed and while it lasts, but   *)
(* for the beginnings of paths that are parsed as authorities.             *)
SignedPasses == part = "url" => UrlSigner!PassedWasSigned /\ UrlSigner!SignedPasses

(* jwt.go: a handler acts on the identity of its own, valid token only.    *)
SeenIsSigned == part = "jwt" => Jwt!SeenIsSigned

(* recaptcha.go, turnstile.go: who passes was vouched for.                 *)
PassedIsVouched == part = "captcha" => Captcha!PassedIsVouched

(* middleware.go: an allowed origin is listed.                             *)
AllowedIsListed == part = "cors" => Cors!AllowedIsListed

(* ses.go: everyone gets a mail or is warned of.                           *)
EveryoneIsAccountedFor == part = "mail" => Mailer!EveryoneIsAccountedFor

(* migrate.go: nothing is undone or dropped but on the y of a read of its  *)
(* own for each question.                                                  *)
HarmIsConfirmed == part = "migrate" => Migrate!HarmIsConfirmed

(* util.go, scalars: a value is read back as it was, or as its column and  *)
(* its text keep it.                                                       *)
ValueSurvives == part = "values" => Values!ValueSurvives

(* util.go:472: a text that is cut to a number of bytes is UTF-8.          *)
TruncateIsUtf8Safe == part = "values" => Values!TruncateIsUtf8Safe
=============================================================================
