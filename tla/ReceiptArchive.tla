---------------------------- MODULE ReceiptArchive ----------------------------
(***************************************************************************)
(* Receipts over the lifetimes of signing keys (receipt/signer.ts).        *)
(* Ed25519Signer keeps its private key in memory and can only generate a   *)
(* new one, so every restart of a service is a rotation, under a new name  *)
(* or an old one.  What was signed before stays in circulation.  A         *)
(* verifier trusts the keys it was built with and learns of none: they are *)
(* what the operator gives it, sooner, later or never, complete or not.    *)
(***************************************************************************)
EXTENDS ReceiptFormat, FiniteSets

CONSTANTS
  Instance,   \* processes of the service
  Key,        \* key pairs; also the key ids derived from them
  NamesOf,    \* the names an instance may pass to generate(), or NoName
  Input,      \* what buildReceipt is given
  Id,         \* receipt ids, one for each receipt of the model
  NoName, NoKey

ASSUME ArchiveAssumption ==
  /\ DOMAIN NamesOf = Instance
  /\ \A i \in Instance : Bad \notin NamesOf[i]
  /\ Bad \notin Key
  /\ NoKey \notin Key
  /\ Bad \notin Id

VARIABLES
  signer,       \* each instance's signer: key id and key
  keys,         \* the keys the verifier at hand trusts, by key id
  issued,       \* ghost: every receipt ever signed
  generated     \* ghost: signers generated so far

archiveVars == <<signer, keys, issued, generated>>

NoSigner == [keyId |-> NoName, key |-> NoKey]

\* The key id is the name, else the public key itself.
KeyId(name, key) == IF name = NoName THEN key ELSE name

\* What generate() may return to instance i: a key nobody has, under any name.
Generated(i) ==
  {g \in [keyId : {KeyId(n, k) : n \in NamesOf[i], k \in Key}, key : Key] :
     /\ \E n \in NamesOf[i] : g.keyId = KeyId(n, g.key)
     /\ \A old \in generated : g.key # old.key}

Restart(i) ==
  \E g \in Generated(i) :
    /\ signer' = [signer EXCEPT ![i] = g]
    /\ generated' = generated \cup {g}
    /\ UNCHANGED <<keys, issued>>

\* A verifier is built, from any of the public keys under any of the ids.
NewVerifier ==
  \E ids \in SUBSET {g.keyId : g \in generated} :
    /\ keys' \in [ids -> {g.key : g \in generated}]
    /\ UNCHANGED <<signer, issued, generated>>

\* buildReceipt() and signReceipt(); an input that does not parse throws.
Issue(i) ==
  /\ signer[i] # NoSigner
  /\ \E input \in Input, id \in Id \ {s.receipt.id : s \in issued} :
       /\ CanBuild(input, id, "now")
       /\ issued' = issued \cup {SignReceipt(BuiltBody(input, id, "now"), signer[i])}
  /\ UNCHANGED <<signer, keys, generated>>

\* What is signed is none of the values no field accepts.
ASSUME SigningAssumption ==
  /\ Bad # "Ed25519"
  /\ \A input \in Input, id \in Id : CanBuild(input, id, "now") =>
       \A key \in Key :
         Sign(key, canonicalBytes(Parsed(BuiltBody(input, id, "now")))) \notin {Bad, Garbled}

ArchiveInit ==
  /\ signer = [i \in Instance |-> NoSigner]
  /\ keys = <<>>
  /\ issued = {}
  /\ generated = {}

ArchiveNext ==
  \/ \E i \in Instance : Restart(i) \/ Issue(i)
  \/ NewVerifier

ArchiveSpec == ArchiveInit /\ [][ArchiveNext]_archiveVars

-----------------------------------------------------------------------------
(* Properties. *)

\* An object with one field set, whether it had the field or not.
With(object, field, value) ==
  [f \in DOMAIN object \cup {field} |-> IF f = field THEN value ELSE object[f]]

\* A signed receipt as it stands; with one field changed or added, in the body,
\* in the settlement reference, in the signature or around them; or with the
\* signature of another receipt.
Altered(s) ==
  LET anchors    == {t.receipt.settlement.anchor : t \in issued}
      references == {With(s.receipt.settlement, "anchor", a) : a \in anchors}
                    \cup {With(s.receipt.settlement, "note", "added")}
      bodies     == {With(s.receipt, f, t.receipt[f]) : f \in BodyField, t \in issued}
                    \cup {With(s.receipt, "settlement", r) : r \in references}
                    \cup {With(s.receipt, "note", "added")}
      signatures == {t.signature : t \in issued}
                    \cup {With(s.signature, "keyId", id) : id \in DOMAIN keys}
                    \cup {With(s.signature, "algorithm", "other"),
                          With(s.signature, "value", Garbled), With(s.signature, "note", "added")}
  IN {s, With(s, "note", "added")}
     \cup {With(s, "receipt", b) : b \in bodies} \cup {With(s, "signature", g) : g \in signatures}

\* What a reader of the schema sees of c, and its signature, are those of the
\* signed receipt t, and the verifier has the key that signed t under the id
\* that c names.
IsTrustedCopy(c, t) ==
  /\ Parsed(c.receipt) = t.receipt
  /\ c.signature.algorithm = "Ed25519" /\ c.signature.value = t.signature.value
  /\ c.signature.keyId \in DOMAIN keys /\ keys[c.signature.keyId] = t.signature.value.key

\* However keys were replaced and handed out, a receipt or an altered copy of
\* one verifies exactly if, up to fields the schema does not know, it is a
\* receipt that was signed, and the verifier holds the signer's key under the id
\* it names: no field the schema knows can be changed, and mixing parts of
\* genuine receipts makes none.  A verifier whose key was replaced under the
\* same name, that was never given the key or lost it, refuses the receipt.
OnlyIssuedVerify ==
  \A s \in issued : \A c \in Altered(s) :
    VerifyReceipt(c, keys) = "valid" <=> \E t \in issued : IsTrustedCopy(c, t)

=============================================================================
