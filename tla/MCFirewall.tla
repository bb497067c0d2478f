----------------------------- MODULE MCFirewall -----------------------------
(***************************************************************************)
(* Firewall on a small instance: three addresses, one of them protected; a *)
(* single address, a network that contains it and goes by the same name    *)
(* with netsh, a network that overlaps the protected address, and no       *)
(* target.                                                                 *)
(***************************************************************************)
EXTENDS Firewall, TLC

CONSTANTS x, y, gateway, none

MCAddresses == {x, y, gateway}
MCProtected == {{gateway}}

MCCovers == "2001:db8::5:64"   :> {x}
         @@ "2001:db8::5/64"   :> {x, y}
         @@ "2001:db8::/32"    :> {x, y, gateway}
MCNetworks == DOMAIN MCCovers

MCFolded == "2001:db8::5:64"   :> "2001_db8__5_64"
         @@ "2001:db8::5/64"   :> "2001_db8__5_64"
         @@ "2001:db8::/32"    :> "2001_db8___32"
         @@ none               :> "None"
=============================================================================
