------------------------------ MODULE MCAlerts ------------------------------
(* Instances of Alerts for TLC: a default with URLs and a secret, and a    *)
(* category with a webhook of every kind.                                  *)
EXTENDS Alerts

CONSTANTS k1, x1, x2   \* a category and two secrets

Url == [kind |-> "url"]
Prop(x) == [kind |-> "prop", secret |-> x]
Good == [slack |-> <<Url, Prop(x1)>>, msteams |-> <<>>]
Bad == [slack |-> <<Prop(x1), [kind |-> "noProp", secret |-> x2], Url>>,
        msteams |-> <<Prop(x1), [kind |-> "undefined"]>>]
MCConfig == [c \in {Default, k1} |-> IF c = k1 THEN Bad ELSE Good]
=============================================================================
