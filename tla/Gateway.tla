------------------------------ MODULE Gateway ------------------------------
(***************************************************************************)
(* The operational backend between the mobile app and the admin backend:   *)
(* what it answers to a request, given what the admin backend answers.     *)
(* It keeps no state of its own, so it is operators only.                  *)
(*                                                                         *)
(* An answer of the admin backend is its status and what the body decodes  *)
(* to; status 0 is no answer in time, or none at all.                      *)
(***************************************************************************)
EXTENDS Naturals

NoAnswer == 0
AdminAnswers == [status : {NoAnswer, 200, 400, 401, 404, 500}, body : {"user", "mfaUser", "unreadable"}]

\* The errors AdminClient throws.
AdminErrors == {"invalidCredentials", "userNotFound", "unavailable", "badResponse"}

\* decodeUser: the user, or AdminBadResponseError.
DecodeUser(a) == IF a.body = "unreadable" THEN "badResponse" ELSE a.body

\* fetchWithTimeout throws AdminUnavailableError.
Unavailable(a) == a.status = NoAnswer \/ a.status >= 500

\* AdminClient.postUser and getUser: a user or the error they throw.
PostUser(a) ==
    CASE a.status = 401 -> "invalidCredentials"
      [] Unavailable(a) -> "unavailable"
      [] a.status = 200 -> DecodeUser(a)
      [] OTHER          -> "badResponse"

GetUser(a) ==
    CASE a.status = 404 -> "userNotFound"
      [] Unavailable(a) -> "unavailable"
      [] a.status = 200 -> DecodeUser(a)
      [] OTHER          -> "badResponse"

\* The status for an error of the admin client.
MapAdminError(e) ==
    CASE e = "invalidCredentials" -> 401
      [] e = "userNotFound"       -> 404
      [] OTHER                    -> 502

\* POST /v1/auth/login: the app has no second factor.
Login(complete, a) ==
    CASE ~complete               -> 400
      [] PostUser(a) = "user"    -> 200
      [] PostUser(a) = "mfaUser" -> 409
      [] OTHER                   -> MapAdminError(PostUser(a))

\* google-auth-library vouches for the ID token, and it names an account.
Validate(idToken) == idToken = "genuine"

\* POST /v1/auth/google: the same, once the ID token is verified.
GoogleLogin(idToken, a) == IF Validate(idToken) THEN Login(TRUE, a) ELSE 401

\* jwtAuth: a bearer token that verifies.
JwtAuth(bearer, verifies) == bearer /\ verifies

\* Mutant: every failure of the lookup is taken for a bad token.
MeRefuses(authorised, a) ==
    IF authorised /\ GetUser(a) \notin AdminErrors THEN 200 ELSE 401

\* GET /v1/api/me: only the token's own fault is a 401.
Me(authorised, a) ==
    CASE ~authorised                    -> 401
      [] GetUser(a) \notin AdminErrors  -> 200
      [] GetUser(a) = "userNotFound"    -> 404
      [] OTHER                          -> 502
=============================================================================
