------------------------------ MODULE MCRequest ------------------------------
(* TLC instance of Request, and with it of InputDict: one name with an     *)
(* array element and an element of that element, two of the upload         *)
(* variables, and the request method, in the body and in SERVER.           *)
EXTENDS Request

a   == <<"a">>
ai  == <<"a", "i]">>
aij == <<"a", "i]", "j]">>
CONTENT_TYPE == <<"CONTENT_TYPE">>
REQUEST_METHOD == <<"REQUEST_METHOD">>

MCKeys == {a, ai, aij, UPLOAD_KEY, CONTENT_TYPE, REQUEST_METHOD}
MCServerNames == {"UPLOAD_KEY", "CONTENT_TYPE", "REQUEST_METHOD"}
MCUploadVars == {UPLOAD_KEY, CONTENT_TYPE}
MCValues == 0 .. 1
MCKnownKeys == {ai, aij}

Nothing == [k \in {} |-> 0]

(* One seed that carries both a and a[i][j], which no set_input forbids,   *)
(* and one that carries part of an upload and a method of its own.         *)
MCSeeds ==
    {[m \in input_methods |->
        IF m = "POST" THEN [k \in {a, aij} |-> 1] ELSE Nothing],
     [m \in input_methods |->
        IF m = "SERVER" THEN [k \in {UPLOAD_KEY, REQUEST_METHOD} |-> GET] ELSE Nothing]}
=============================================================================
