--------------------------- MODULE MCRefHandshake ---------------------------
(***************************************************************************)
(* RefHandshake with bytes of three values and payloads of at most two     *)
(* bytes.  There is a payload for each message the code tells apart, a     *)
(* good response in UTF-16 (<<0, 2>>), a challenge with a field that does  *)
(* not fit the phone's class (<<0, 1>>), a payload that makes json.loads   *)
(* raise (<<2>>), and one that only a lenient parser takes (<<2, 0>>).     *)
(***************************************************************************)
EXTENDS RefHandshake

MCMeaning ==
    [p \in {<<0>>, <<1>>, <<2>>} \cup (({0, 1, 2} \X {0, 1, 2}) \ {<<2, 0>>}) |->
        CASE p = <<0>> -> [kind |-> "null"]
          [] p = <<1>> -> [kind |-> "value"]
          [] p = <<2>> -> [kind |-> "damaged"]
          [] p = <<0, 0>> -> Challenge(Fresh)
          [] p = <<0, 1>> -> Challenge(Stale)
          [] p = <<0, 2>> -> Response(Fresh, Trusted)
          [] p = <<1, 0>> -> Response(Fresh, Trusted)
          [] p = <<1, 1>> -> Response(Stale, Trusted)
          [] p = <<1, 2>> -> Response(Fresh, Other)
          [] p = <<2, 1>> -> Response(Stale, Other)
          [] p = <<2, 2>> -> [kind |-> "object"]]

MCCoding == [p \in {<<0, 2>>} |-> "wide"]
MCMisfits == {<<0, 1>>}
MCLenient == [p \in {<<2>>, <<2, 0>>} |-> "message"]
=============================================================================
