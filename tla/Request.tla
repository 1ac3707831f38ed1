------------------------------- MODULE Request -------------------------------
(***************************************************************************)
(* From an input to the CGI variables of the request that PHP sees:        *)
(* input_to_env (src/fuzzer/misc.py), for every input that the edits of    *)
(* InputDict can produce.  Urlencoding keeps a string empty or not empty,  *)
(* which is all that is looked at here; like in InputDict a value is its   *)
(* length, and one value stands for "GET".  What is kept of a CGI variable *)
(* is where it comes from and its value.                                   *)
(***************************************************************************)
EXTENDS InputDict, FiniteSets

CONSTANTS
    GET,            \* the value "GET"
    BrowserNames    \* the names in default_server_variables (browser_data.json)

ASSUME RequestConstants ==
    /\ GET \in Values /\ GET > 0
    /\ PlainMethods \subseteq {"GET", "POST", "COOKIE"}
    /\ BrowserNames \subseteq STRING

(* dict.update *)
Update(env, new) ==
    [n \in DOMAIN env \cup DOMAIN new |-> IF n \in DOMAIN new THEN new[n] ELSE env[n]]

From(source, value) == [source |-> source, value |-> value]

(* The browser's variables (its request was a GET), and the ones that are  *)
(* set for every request.                                                  *)
DefaultEnv ==
    Update([n \in BrowserNames |-> From("browser", IF n = "REQUEST_METHOD" THEN GET ELSE 1)],
           [n \in {"REDIRECT_STATUS", "DOCUMENT_ROOT"} |-> From("fixed", 1)])

(* '&'.join over the variables of a method: empty if there are none.  An   *)
(* instance may leave out a method, whose variables are then none.         *)
Joined(i, m) == IF m \in input_methods THEN Cardinality(DOMAIN i[m]) ELSE 0

(* The body: of an upload, with at least the closing boundary, or of a form. *)
post_data(i) == IF is_upload_mode(i) THEN 1 + Joined(i, "POST") ELSE Joined(i, "POST")

REQUEST_URI(i) ==
    LET d == i["SERVER"] IN
    IF <<"REQUEST_URI">> \notin DOMAIN d THEN From("script", 1)
    ELSE IF d[<<"REQUEST_URI">>] = 0 THEN From("script", 1)
    ELSE From("SERVER", d[<<"REQUEST_URI">>])

(* The variables of the request line, the cookies and the body. *)
RequestEnv(i) ==
    [n \in {"QUERY_STRING", "POST_DATA", "CONTENT_LENGTH", "HTTP_COOKIE", "SCRIPT_FILENAME",
            "SCRIPT_NAME", "PHP_SELF", "REQUEST_URI"} |->
       CASE n = "QUERY_STRING" -> From("GET", Joined(i, "GET"))
         [] n \in {"POST_DATA", "CONTENT_LENGTH"} -> From("POST", post_data(i))
         [] n = "HTTP_COOKIE" -> From("COOKIE", Joined(i, "COOKIE"))
         [] n = "REQUEST_URI" -> REQUEST_URI(i)
         [] OTHER -> From("script", 1)]

set_if_not_set == [n \in {"HTTP_USER_AGENT", "CONTENT_TYPE"} |-> From("fixed", 1)]

(* The SERVER variables of the input, if they are whitelisted.  Names with *)
(* a "[" never are in SERVER (ServerWhitelisted); names that cannot be     *)
(* decoded or printed, which are skipped, are not among Keys.              *)
ServerEnv(i) ==
    LET accepted == {k \in DOMAIN i["SERVER"] : ServerAccepts(k)} IN
    [n \in {k[1] : k \in accepted} |-> From("SERVER", i["SERVER"][<<n>>])]

(* REQUEST_METHOD once all other variables are set: GET if there is none,  *)
(* and POST (any value but GET) if a GET has a body.                       *)
WithMethod(env) ==
    LET method == IF "REQUEST_METHOD" \in DOMAIN env THEN env["REQUEST_METHOD"]
                  ELSE From("fixed", GET)
        final == IF method.value = GET /\ env["POST_DATA"].value > 0
                 THEN From("fixed", GET + 1) ELSE method
    IN  Update(env, [n \in {"REQUEST_METHOD"} |-> final])

(* Mutant: the method is settled before the SERVER variables are copied. *)
input_to_env_MethodFirst(i) ==
    LET env == Update(DefaultEnv, RequestEnv(i))
    IN  Update(WithMethod(Update(set_if_not_set, env)), ServerEnv(i))

input_to_env(i) ==
    LET env == Update(DefaultEnv, RequestEnv(i))
    IN  WithMethod(Update(Update(set_if_not_set, env), ServerEnv(i)))

-----------------------------------------------------------------------------
(* Whatever was edited, merged or trimmed: a request with a body is not    *)
(* sent as a GET, for which PHP would ignore the body, and none is sent    *)
(* without a method or a content type.                                     *)
BodyIsRead ==
    LET env == input_to_env(inp) IN
    /\ {"REQUEST_METHOD", "CONTENT_TYPE"} \subseteq DOMAIN env
    /\ env["POST_DATA"].value > 0 => env["REQUEST_METHOD"].value # GET
=============================================================================
