----------------------------- MODULE ImageStore -----------------------------
(***************************************************************************)
(* What a loader stage promises about its two image slots, without cells,  *)
(* sectors or digests: which image each slot holds, if any, and which      *)
(* image was started.  Boot implements this specification.                 *)
(***************************************************************************)
CONSTANTS
    Image,      \* the images
    NoImage     \* a slot that holds no image; nothing started

VARIABLES
    good,       \* good[s]: the image that slot s holds, or NoImage
    powered,    \* the device has power
    started     \* the image that was started since power on, or NoImage

vars == <<good, powered, started>>

Slot == {"APP", "BAK"}
Other(s) == IF s = "APP" THEN "BAK" ELSE "APP"

\* The application if there is a good one, else the backup.
Preferred == IF good["APP"] # NoImage THEN good["APP"] ELSE good["BAK"]

\* What a powered loader may do to the slots: lose or renew a copy of an image
\* that the other slot holds, and touch the application only if it is bad.
MaintainSlots ==
    /\ good' \in [Slot -> Image \cup {NoImage}]
    /\ \A s \in Slot :
          good'[s] # good[s] => /\ good[Other(s)] # NoImage
                                /\ good'[s] \in {NoImage, good[Other(s)]}
                                /\ s = "APP" => good["APP"] = NoImage

Init ==
    /\ good \in [Slot -> Image \cup {NoImage}]
    /\ powered = FALSE
    /\ started = NoImage

PowerOn ==
    /\ ~powered
    /\ powered' = TRUE
    /\ UNCHANGED <<good, started>>

Maintain ==
    /\ powered
    /\ started = NoImage
    /\ MaintainSlots
    /\ started' \in {NoImage, Preferred}
    /\ UNCHANGED powered

PowerLoss ==
    /\ powered
    /\ MaintainSlots
    /\ powered' = FALSE
    /\ started' = NoImage

\* While the power is off a slot decays or is given another image.
Replace ==
    /\ ~powered
    /\ \E s \in Slot, m \in Image \cup {NoImage} : good' = [good EXCEPT ![s] = m]
    /\ UNCHANGED <<powered, started>>

Next == PowerOn \/ Maintain \/ PowerLoss \/ Replace

Spec == Init /\ [][Next]_vars
=============================================================================
