----------------------------- MODULE MCDeployment -----------------------------
(***************************************************************************)
(* Deployment for TLC: every store with every provider, with one value too *)
(* short or unknown to the code, and up to two of the values missing, or   *)
(* any number of those that AWS credentials come from.                     *)
(***************************************************************************)
EXTENDS Deployment

Complete(driver, provider) ==
    [n \in Names |-> CASE n = "STORE_DRIVER" -> driver
                       [] n = "SMS_PROVIDER" -> provider
                       [] OTHER -> "strong"]

Missing ==
    {{a, b} : a, b \in Names}
      \cup SUBSET (Keys \cup Uris \cup {"AWS_SESSION_TOKEN"})

Altered(complete, missing, short) ==
    [n \in Names |-> IF n \in missing THEN ""
                     ELSE IF n = short THEN "short" ELSE complete[n]]

MCEnvironments ==
    {Altered(Complete(driver, provider), missing, short) :
       driver \in {"memory", "firestore", "dynamodb"},
       provider \in {"twilio", "amazon_sns"},
       missing \in Missing,
       short \in {"AWS_REGION", "STORE_DRIVER", "SMS_PROVIDER"}
                   \cup RequiredStrongSecrets}
=============================================================================
