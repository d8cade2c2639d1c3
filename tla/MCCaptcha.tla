----------------------------- MODULE MCCaptcha -----------------------------
(* Captcha on small instances: one newcomer, who may join twice. *)
EXTENDS Captcha

CONSTANT u1

OneUser == {u1}
=============================================================================
