------------------------------- MODULE MCLogin -------------------------------
EXTENDS LoginCeremony

(* No 2FA; one factor; a security key after a code and before one; a factor *)
(* the program does not know.                                               *)
MCOffers == {<<>>, <<"totp">>, <<"email", "webauthn">>, <<"webauthn", "totp">>,
             <<"unknown">>}
=============================================================================
