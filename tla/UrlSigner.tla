----------------------------- MODULE UrlSigner ------------------------------
(***************************************************************************)
(* wwauth/url_signer.go: links that carry the time they were signed at,    *)
(* the seconds they are good for and a MAC of the rest of their path and   *)
(* query.                                                                  *)
(*                                                                         *)
(* What is signed is not the URL itself but RequestURI parsed again, and   *)
(* url.Parse takes what follows a leading // for an authority.  A path is  *)
(* the segments that it would take one after the other (before), and the   *)
(* rest, which begins with one slash or with three.  Links are signed with *)
(* a scheme and a host, which keep the path whole in the signed URL; the   *)
(* MAC does not cover them.                                                *)
(*                                                                         *)
(* A query is a function from names to lists of values, as url.Values is.  *)
(* A number's text may be other than the one Sprintf writes.  The MAC is   *)
(* taken to be ideal: what was signed can be read off it.                  *)
(***************************************************************************)
EXTENDS Integers, Sequences, FiniteSets

CONSTANTS Page,     \* paths, each with what else is in its query
          Invalid,  \* what cannot be parsed as an authority
          Expiry,   \* the seconds that links are signed for
          Bits,     \* the width of a duration in seconds
          MaxTime,  \* bound, in half seconds
          MaxLinks  \* bound: links that are issued

VARIABLES now,      \* in half seconds
          issued    \* the links that were signed

vars == <<now, issued>>

Number(n) == [n |-> n, form |-> "sprintf"]
Written == [n : Int, form : {"sprintf", "padded", "letters"}]

TypeOK == /\ now \in 0..MaxTime
          /\ \A l \in issued : /\ l.page \in Page
                               /\ l.at \in Seq(Written) /\ l.expires \in Seq(Written)
                               /\ Len(l.sig) = 1

Init == now = 0 /\ issued = {}

(* url.Parse(RequestURI()).  If it fails, the URL is nil, and the line     *)
(* after it panics.                                                        *)
Parseable(page) == page.before = <<>> \/ Head(page.before) \notin Invalid
Reparsed(page) == IF page.before = <<>> THEN page ELSE [page EXCEPT !.before = Tail(@)]

(* Mutant: the MAC leaves the expiry out.                                  *)
MacOfPage(link) == [link EXCEPT !.page = Reparsed(@), !.expires = <<>>]

Mac(link) == [link EXCEPT !.page = Reparsed(@)]

(* Set replaces every value of a name.  A signature that the link has      *)
(* already is signed like any other parameter, and then replaced.  Only    *)
(* for a link whose page is Parseable.                                     *)
SignUrlForTime(link, expires, at) ==
  LET timed == [link EXCEPT !.at = <<Number(at)>>]
      dated == [timed EXCEPT !.expires = <<Number(expires)>>]
  IN  [dated EXCEPT !.sig = <<Mac(dated)>>]

(* Seconds since the epoch, without the fraction.                          *)
SignUrl(link, expires) == SignUrlForTime(link, expires, now \div 2)

Duration(seconds) == ((seconds + 2^(Bits - 1)) % 2^Bits) - 2^(Bits - 1)

Parses(list) == list # <<>> /\ Head(list).form # "letters"

IsExpired(at, expires) == 2 * (at + Duration(expires)) < now

IsCurrent(link) ==
  /\ Parses(link.at)
  /\ Parses(link.expires) /\ Head(link.expires).n >= 1
  /\ ~IsExpired(Head(link.at).n, Head(link.expires).n)
  /\ link.sig # <<>>

(* The path is parsed again here, and once more by SignUrlForTime.         *)
VerifyUrl(link) ==
  LET unsigned == [link EXCEPT !.sig = <<>>]
      original == [unsigned EXCEPT !.page = Reparsed(@)]
      expected == SignUrlForTime(original, Head(link.expires).n, Head(link.at).n)
  IN  IF ~IsCurrent(link) THEN "refused"
      ELSE IF ~Parseable(link.page) \/ ~Parseable(original.page) THEN "panics"
      ELSE IF Head(link.sig) = Head(expected.sig) THEN "passes" ELSE "refused"

-----------------------------------------------------------------------------
Plain(page) == [page |-> page, at |-> <<>>, expires |-> <<>>, sig |-> <<>>]

MaySign == Cardinality(issued) < MaxLinks
Sign == /\ MaySign
        /\ \E page \in {p \in Page : Parseable(p)}, expires \in Expiry :
             issued' = issued \cup {SignUrl(Plain(page), expires)}
        /\ UNCHANGED now

(* A link that was signed before is signed again.                          *)
SignAgain == /\ MaySign
             /\ \E link \in issued, expires \in Expiry :
                  issued' = issued \cup {SignUrl(link, expires)}
             /\ UNCHANGED now

Tick == now < MaxTime /\ now' = now + 1 /\ UNCHANGED issued

Next == Sign \/ SignAgain \/ Tick
Spec == Init /\ [][Next]_vars

-----------------------------------------------------------------------------
(* The links that the properties ask about: those issued, with a value     *)
(* written otherwise, taken from another link, repeated or left out.       *)
Variants(list, others) ==
  {list, <<>>} \cup {<<v>> \o list : v \in others} \cup {list \o <<v>> : v \in others}
  \cup {<<[v EXCEPT !.form = f]>> : v \in others, f \in {"padded", "letters"}}
Numbers(field) == {Head(l[field]) : l \in issued}
Links == UNION {{[page |-> page, at |-> at, expires |-> expires, sig |-> link.sig] :
                   page \in Page, at \in Variants(link.at, Numbers("at")),
                   expires \in Variants(link.expires, Numbers("expires"))} : link \in issued}

First(list) == Head(list).n
Fresh(link) == Head(link.sig).sig = <<>>
Same(link, original) ==
  /\ Reparsed(Reparsed(link.page)) = Reparsed(original.page) /\ link.sig = original.sig
  /\ Parses(link.at) /\ First(link.at) = First(original.at)
  /\ Parses(link.expires) /\ First(link.expires) = First(original.expires)
Lasts(link) == 2 * (First(link.at) + First(link.expires))

(* Every link that was issued has one time and one expiry, as Sprintf      *)
(* writes them, and the MAC of its page parsed again, without the          *)
(* signature: with the one it had before, if any.                          *)
IsSigned(l) ==
  l = [page |-> l.page, at |-> <<Number(First(l.at))>>, expires |-> <<Number(First(l.expires))>>,
       sig |-> <<[page |-> Reparsed(l.page), at |-> l.at, expires |-> l.expires,
                  sig |-> Head(l.sig).sig]>>]
IssuedIsSigned ==
  \A l \in issued : /\ l.page \in Page /\ Parseable(l.page)
                   /\ First(l.at) \in Int /\ First(l.expires) \in Int /\ IsSigned(l)

Inductive == now \in 0..MaxTime /\ IssuedIsSigned

(* Whatever passes was signed with the same times, and with the same page  *)
(* but for what of a path's beginning is parsed as an authority: two of    *)
(* the link's, against one of the original's.                              *)
PassedWasSigned ==
  \A link \in Links : VerifyUrl(link) = "passes" =>
      \E original \in issued : Same(link, original) /\ now <= Lasts(original)

(* A link works until its time is over, if it was not signed over an older *)
(* signature and its time fits a duration, exactly if at most one piece of *)
(* its path is taken for an authority.                                     *)
SignedPasses ==
  \A link \in issued :
    Fresh(link) /\ First(link.expires) \in 1..(2^(Bits - 1) - 1) /\ now <= Lasts(link)
      => (VerifyUrl(link) = "passes" <=> Len(link.page.before) <= 1)
=============================================================================
