---------------------------- MODULE MCPhoneAccount ----------------------------
(* One person with two passkeys, or with one. *)
EXTENDS PhoneAccount

CONSTANTS alice, bob
One == {alice}
Two == {alice, bob}
=============================================================================
