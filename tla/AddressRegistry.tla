-------------------------- MODULE AddressRegistry --------------------------
(***************************************************************************)
(* LUD-26: POST, PUT and DELETE of /.well-known/lnurlp/<username>.  A      *)
(* username is registered to a share, replaced by another share, or given  *)
(* up.  handleRegistration runs once the whole body has arrived, so each   *)
(* is one action.                                                          *)
(***************************************************************************)
EXTENDS MintStore

CONSTANT Reserved      \* mint, _ and any name with a +

Registered(u) == registrations[u].cx1 # None

\* x(P) was accepted before, for this username or any other, then or now.
cx1Used(cx1) == KeyOf[cx1] \in usedKeys

registerShare(u, cx1, paid, hash) ==
  /\ registrations' = [registrations EXCEPT ![u] =
                        [cx1 |-> cx1, paid |-> paid, paymentHash |-> hash]]
  /\ usedKeys' = usedKeys \cup {KeyOf[cx1]}

\* proven: the signature is one by the share's key over this registration.
MayRegister(u, cx1, proven) ==
  /\ u \notin Reserved
  /\ cx1 # None
  /\ proven
  /\ ~Registered(u)
  /\ ~cx1Used(cx1)

\* Free of charge the address is served at once; otherwise its fee invoice
\* holds it back.
Post(u, cx1, proven, hash) ==
  /\ MayRegister(u, cx1, proven)
  /\ IF AddressFee = 0
     THEN hash = None /\ registerShare(u, cx1, TRUE, None) /\ UNCHANGED invoices
     ELSE /\ hash \in Hash /\ Fresh(hash)
          /\ registerShare(u, cx1, FALSE, hash)
          /\ invoices' = [invoices EXCEPT ![hash] =
                           [NoInvoice EXCEPT !.use = "addressFee", !.user = u,
                                             !.amountMsat = AddressFee,
                                             !.invoiced = AddressFee]]
  /\ Reply("OK", {})
  /\ UNCHANGED <<invoiceNotes, boundOutputs, noteVars>>

\* sig is by the key on file, newsig by the new one: an update needs both.
MayUpdate(u, cx1, sig, newsig) ==
  /\ Registered(u) /\ registrations[u].paid
  /\ cx1 # None
  /\ sig /\ newsig
  /\ ~cx1Used(cx1)

Put(u, cx1, sig, newsig) ==
  /\ MayUpdate(u, cx1, sig, newsig)
  /\ registerShare(u, cx1, TRUE, None)
  /\ Reply("OK", {})
  /\ UNCHANGED <<quoteVars, noteVars>>

Delete(u, sig) ==
  /\ Registered(u) /\ sig
  /\ registrations' = [registrations EXCEPT ![u] = NoRegistration]
  /\ Reply("OK", {})
  /\ UNCHANGED <<usedKeys, quoteVars, noteVars>>

RegistrationRefusable ==
  \E u \in Username, cx1 \in Cx1 \cup {None}, sig, newsig \in BOOLEAN :
    \/ ~MayRegister(u, cx1, sig)
    \/ ~MayUpdate(u, cx1, sig, newsig)
    \/ ~(Registered(u) /\ sig)

RefuseRegistration ==
  /\ RegistrationRefusable = TRUE
  /\ Reply("refused", {})
  /\ UNCHANGED <<noteVars, quoteVars, shareVars>>

RegistryStep ==
  \/ RefuseRegistration
  \/ \E u \in Username, sig \in BOOLEAN :
       \/ Delete(u, sig)
       \/ \E cx1 \in Cx1 \cup {None} :
            \/ \E hash \in Hash \cup {None} : Post(u, cx1, sig, hash)
            \/ \E newsig \in BOOLEAN : Put(u, cx1, sig, newsig)
=============================================================================
