------------------------------ MODULE Secrets -------------------------------
(***************************************************************************)
(* secret_from_file, secret_from_env and secret_tls (context/secrets.rs):  *)
(* a secret is put together from several reads and then applied, while     *)
(* whoever owns the files may write, replace or remove them.               *)
(*                                                                         *)
(* A source is a file or a variable of the environment; there are as many  *)
(* as there are keys, and the variable of a key is the one of its name.    *)
(***************************************************************************)
EXTENDS Naturals

CONSTANTS Keys,      \* of a secret, tls.crt and tls.key among them
          Versions,  \* what a source may contain
          Missing    \* no such file, or the variable is not set

TlsKeys == {"tls.crt", "tls.key"}
ASSUME SecretsAssumption == TlsKeys \subseteq Keys /\ Missing \notin Versions

VARIABLES sources,   \* what each source contains
          secret,    \* the secret in the cluster
          making,    \* the call, or the last one: kind, wants, toRead, read
          outcome,   \* "running", or what the last call returned
          during     \* history: what each source contained during the call

secretVars == <<sources, secret, making, outcome, during>>

Empty == [k \in {} |-> Missing]
NoSecret == [type |-> "none", data |-> Empty]

SecretsInit ==
  /\ sources \in [Keys -> Versions \cup {Missing}]
  /\ secret = NoSecret
  /\ making = [kind |-> "none", wants |-> Empty, toRead |-> {}, read |-> Empty]
  /\ outcome = "none"
  /\ during = [k \in Keys |-> {}]

(* The source of each key.  A file may serve for several keys; keys named  *)
(* twice, to secret_from_env, are one.                                     *)
Wants(kind) ==
  CASE kind = "file" -> UNION {[ks -> Keys] : ks \in SUBSET Keys}
    [] kind = "env" -> {[k \in ks |-> k] : ks \in SUBSET Keys}
    [] kind = "tls" -> [TlsKeys -> Keys]

Call(kind, wants) ==
  /\ outcome # "running"
  /\ making' = [kind |-> kind, wants |-> wants, toRead |-> DOMAIN wants, read |-> Empty]
  /\ outcome' = "running"
  /\ during' = [k \in Keys |-> {sources[k]}]
  /\ UNCHANGED <<sources, secret>>

(* The order of a HashMap, or the order of the arguments, is any; the      *)
(* certificate is read before the key.                                     *)
IsNext(k) ==
  /\ outcome = "running" /\ k \in making.toRead
  /\ making.kind = "tls" /\ k = "tls.key" => "tls.crt" \notin making.toRead

Extend(f, k, v) == [i \in DOMAIN f \cup {k} |-> IF i = k THEN v ELSE f[i]]

(* Mutation: a source that is missing is left out.                         *)
ReadOrSkip(k) ==
  /\ IsNext(k)
  /\ making' = [making EXCEPT !.toRead = @ \ {k},
                  !.read = IF sources[making.wants[k]] = Missing THEN @
                           ELSE Extend(@, k, sources[making.wants[k]])]
  /\ UNCHANGED <<sources, secret, outcome, during>>

Read(k) ==
  /\ IsNext(k)
  /\ sources[making.wants[k]] # Missing
  /\ making' = [making EXCEPT !.toRead = @ \ {k},
                  !.read = Extend(@, k, sources[making.wants[k]])]
  /\ UNCHANGED <<sources, secret, outcome, during>>

(* The first source that is missing ends the call, nothing is sent.        *)
ReadFails(k) ==
  /\ IsNext(k)
  /\ sources[making.wants[k]] = Missing
  /\ outcome' = "unreadable"
  /\ UNCHANGED <<sources, secret, making, during>>

TypeOf(kind) == IF kind = "tls" THEN "kubernetes.io/tls" ELSE "Opaque"

(* The apply.  The API server does not let a secret change its type; keys  *)
(* of an earlier call that this one does not have are removed.             *)
ApplySecret(told) ==
  /\ outcome = "running" /\ making.toRead = {}
  /\ secret.type \in {"none", TypeOf(making.kind)}
  /\ secret' = [type |-> TypeOf(making.kind), data |-> making.read]
  /\ outcome' = told
  /\ UNCHANGED <<sources, making, during>>

ApplyIsRefused ==
  /\ outcome = "running" /\ making.toRead = {}
  /\ outcome' = "refused"
  /\ UNCHANGED <<sources, secret, making, during>>

DeleteSecret ==
  /\ outcome # "running" /\ secret # NoSecret
  /\ secret' = NoSecret
  /\ outcome' = "deleted"
  /\ UNCHANGED <<sources, making, during>>

(* External: the owner of the sources.                                     *)
Rotate(k, v) ==
  /\ sources' = [sources EXCEPT ![k] = v]
  /\ during' = [during EXCEPT ![k] = IF outcome = "running" THEN @ \cup {v} ELSE @]
  /\ UNCHANGED <<secret, making, outcome>>

SecretsNext ==
  \/ \E kind \in {"file", "env", "tls"} : \E wants \in Wants(kind) : Call(kind, wants)
  \/ \E k \in Keys : Read(k) \/ ReadFails(k)
  \/ \E told \in {"ok", "answer lost"} : ApplySecret(told)
  \/ ApplyIsRefused \/ DeleteSecret
  \/ \E k \in Keys, v \in Versions \cup {Missing} : Rotate(k, v)

SecretsSpec == SecretsInit /\ [][SecretsNext]_secretVars

-----------------------------------------------------------------------------
(* After an Ok the secret has every key of the call and no other - also    *)
(* when it had others before - each with what its source contained while   *)
(* the call ran; only the values of two keys need never have been there    *)
(* together.                                                               *)
SecretIsWhole ==
  outcome = "ok" =>
    /\ DOMAIN secret.data = DOMAIN making.wants
    /\ \A k \in DOMAIN secret.data :
         secret.data[k] \in during[making.wants[k]] \ {Missing}
=============================================================================
