------------------------------ MODULE ImsAccess ------------------------------
(***************************************************************************)
(* The pure access decision of one line (connectivity/core/ims_access.rs): *)
(* which of the two IMS access legs may register.  A decision is the set   *)
(* of legs it admits; the explanatory `code` string is left out.           *)
(***************************************************************************)

\* The two access legs of a line.
Access == {"cellular", "wlan"}

\* The other leg.
Opposite(a) == IF a = "cellular" THEN "wlan" ELSE "cellular"

Preference == {"concurrent", "wlan_preferred", "cellular_preferred"}

\* What `decide` reads.  Of ConcurrentRegistrationSupport only "Negotiated or
\* not" is ever tested, so it is the Boolean `negotiated`.
Inputs == [enabled : SUBSET Access, available : SUBSET Access,
           registered : SUBSET Access, spoofed : BOOLEAN,
           preference : Preference, negotiated : BOOLEAN, blocked : BOOLEAN]

\* A valid registration keeps a leg usable although it may not be retried now.
Usable(in) == {a \in in.enabled : a \in in.available \/ a \in in.registered}

\* One leg: the preferred one, or whichever the other usable leg is.
Prefer(a, usable) == IF a \in usable THEN {a} ELSE usable

\* Mutant: the device identity is not considered.
Decide_IgnoresSpoofing(in) ==
  LET usable == Usable(in)
  IN  CASE in.preference = "concurrent" /\ in.negotiated /\ ~in.blocked -> usable
        [] in.preference = "cellular_preferred" -> Prefer("cellular", usable)
        [] OTHER -> Prefer("wlan", usable)

Decide(in) ==
  LET usable == Usable(in)
  IN  IF in.spoofed THEN usable \ {"cellular"}
      ELSE CASE in.preference = "concurrent" /\ in.negotiated /\ ~in.blocked
                  -> usable
             [] in.preference = "cellular_preferred" -> Prefer("cellular", usable)
             [] OTHER -> Prefer("wlan", usable)

LegsToRelease(decision, up) == up \ decision
=============================================================================
