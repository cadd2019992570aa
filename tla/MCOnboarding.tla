---------------------------- MODULE MCOnboarding ----------------------------
(* The right credentials, a wrong password, an open network, and a name with
   a character outside ASCII. *)
EXTENDS Onboarding

MCWifi == [ssid |-> "home", password |-> "right"]

Filled(password, name) ==
  [ssid |-> "home", password |-> password, cast_device_name |-> name]

MCForms == {Filled("right", "living"), Filled("wrong", "living"), Filled("", "k~che")}
MCNewNames == {"kitchen", ""}
MCNonAscii == {"k~che"}
=============================================================================
