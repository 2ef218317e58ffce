------------------------------- MODULE Mailer -------------------------------
(***************************************************************************)
(* wwaws/ses.go: mail is sent to addresses of the safe domains only, and   *)
(* the others are named in a warning.  An address is the sequence of its   *)
(* parts between @s; its domain is all that comes after the first.         *)
(***************************************************************************)
EXTENDS Naturals, Sequences

CONSTANTS Address, Domains,  \* Domains: the safe ones, when there are any
          AddressLists       \* bound: the lists that mail is meant for

VARIABLES mail,    \* [kind, to, cc, bcc]: "html" is Send's, "raw" SendRaw's, all in to
          safe,    \* SafeEmailDomains: empty if any address will do
          sent,    \* what SES was asked for: <<>> or <<mail>>
          warned,  \* the addresses of the warnings, in order
          result   \* "none", "nil" or "error"

vars == <<mail, safe, sent, warned, result>>

Mails(lists) == [kind : {"html"}, to : lists, cc : lists, bcc : lists]
                \cup [kind : {"raw"}, to : lists, cc : {<<>>}, bcc : {<<>>}]
TypeOK == /\ mail \in Mails(AddressLists) /\ safe \in {{}, Domains}
          /\ sent # <<>> => sent = <<sent[1]>> /\ sent[1] \in Mails(Seq(Address))
          /\ warned \in Seq(Address)
          /\ result \in {"none", "nil", "error"}

Init == /\ mail \in Mails(AddressLists) /\ safe \in {{}, Domains}
        /\ sent = <<>> /\ warned = <<>> /\ result = "none"

(* Mutant: the domain is what comes after the last @.                      *)
CheckLastPart(address) == safe = {} \/ (Len(address) >= 2 /\ <<address[Len(address)]>> \in safe)

CheckSendToAddress(address) == safe = {} \/ (Len(address) >= 2 /\ Tail(address) \in safe)

(* The elements of s that are in what, in order.                           *)
FilterSlice(s, what) ==
  LET res[n \in 0..Len(s)] ==
        IF n = 0 THEN <<>> ELSE IF s[n] \in what THEN Append(res[n - 1], s[n]) ELSE res[n - 1]
  IN  res[Len(s)]

Members(list) == {list[i] : i \in DOMAIN list}

Filtered(list) == FilterSlice(list, {address \in Members(list) : CheckSendToAddress(address)})

DiffSlice(a, b) == FilterSlice(a, Members(a) \ Members(b))

Refused(list) == DiffSlice(list, Filtered(list))

(* No To is left: nothing is sent, and Cc and Bcc are not looked at.       *)
SendNothing == /\ result = "none" /\ Filtered(mail.to) = <<>>
               /\ warned' = Refused(mail.to)
               /\ result' = "nil"
               /\ UNCHANGED <<mail, safe, sent>>

Send == /\ result = "none" /\ Filtered(mail.to) # <<>>
        /\ sent' = <<[kind |-> mail.kind, to |-> Filtered(mail.to), cc |-> Filtered(mail.cc),
                      bcc |-> Filtered(mail.bcc)]>>
        /\ warned' = Refused(mail.to) \o Refused(mail.cc) \o Refused(mail.bcc)
        /\ result' \in {"nil", "error"}
        /\ UNCHANGED <<mail, safe>>

Next == SendNothing \/ Send
Spec == Init /\ [][Next]_vars

-----------------------------------------------------------------------------
Recipients(m) == Members(m.to) \cup Members(m.cc) \cup Members(m.bcc)

(* With safe domains, mail goes to no address outside them, and everyone   *)
(* it was meant for either gets it or is named in a warning, unless no To  *)
(* was left: then nobody gets it.                                          *)
EveryoneIsAccountedFor ==
  /\ sent # <<>> =>
       /\ Recipients(mail) = Recipients(sent[1]) \cup Members(warned)
       /\ Recipients(sent[1]) \cap Members(warned) = {}
       /\ \A address \in Recipients(sent[1]) :
            safe # {} => \E domain \in safe : \E name \in {address[1]} : address = <<name>> \o domain
  /\ result = "nil" /\ sent = <<>> => Members(mail.to) = Members(warned)

(* Until a mail is dealt with, nothing was sent.                           *)
Inductive == /\ TypeOK /\ EveryoneIsAccountedFor
             /\ result = "none" => sent = <<>> /\ warned = <<>>
=============================================================================
