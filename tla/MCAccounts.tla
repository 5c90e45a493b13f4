----------------------------- MODULE MCAccounts -----------------------------
(***************************************************************************)
(* Instances of WebSite for TLC.                                           *)
(***************************************************************************)
EXTENDS WebSite

CONSTANTS e1, t1, t2, a1, a2, p1, m1, m2, m3, g1, g2, g3, k1, k2, b1,
          u1, u2, o1, o2, f1, f2, h1, h2, s1, s2, y1, y2,
          c1, c2, c3, c4, c5, c6, c7, c8, c9, c10, ip

Email(i, d, a) == [id |-> i, kind |-> "email", door |-> d, auth |-> a]
Of(i, k, d) == [id |-> i, kind |-> k, door |-> d, auth |-> None]
RouteCall(i, k) == [id |-> i, kind |-> k, project |-> p1]

Mail1 == Email(m1, e1, a1)
Mail2 == Email(m2, e1, a1)
OtherMail == Email(m3, e1, a2)
Tele1 == Of(g1, "telegram", t1)
Tele2 == Of(g2, "telegram", t1)
Tele3 == Of(g3, "telegram", t2)
Link1 == Of(k1, "link", t1)
Link2 == Of(k2, "link", t2)
Start == Of(b1, "register", t1)

MCRequests == {Mail1, Mail2, OtherMail, Tele1, Tele2, Tele3, Link1, Link2, Start}

Create == RouteCall(c1, "create")
Enqueue == RouteCall(c2, "enqueue")
Presign1 == RouteCall(c3, "presign")
Presign2 == RouteCall(c4, "presign")
Presign3 == RouteCall(c10, "presign")
Register1 == RouteCall(c5, "register")
Register2 == RouteCall(c6, "register")
Enable1 == RouteCall(c7, "enable")
Enable2 == RouteCall(c8, "enable")
Rotate == RouteCall(c9, "rotate")
Disable == RouteCall(k1, "disable")

MCCalls == {Create, Enqueue, Presign1, Presign2, Presign3, Register1, Register2,
            Enable1, Enable2, Rotate, Disable}

\* What arrives together: both doors, two accounts and a link between them;
\* first logins of one Telegram account beside its registration; two links of
\* one account; a job across a link; uploads across a link; uploads of two users
\* at the caps; the share button.
MCMixes ==
    {{Mail1, Mail2, OtherMail, Tele1, Link1, Create},
     {Tele1, Tele2, Start, Mail1, Link1, Create},
     {Mail1, Tele1, Tele3, Link1, Link2, Create},
     {Mail1, Tele1, Link1, Create, Enqueue},
     {Mail1, Tele1, Link1, Create, Presign1, Presign2, Register1, Register2},
     {Mail1, Tele1, Create, Presign1, Presign2, Presign3},
     {Tele1, Create, Enable1, Enable2, Rotate, Disable},
     {}}

\* Two uses of the file picker, with files of one name.
MCBatch == [a \in {h1, h2} |-> IF a = h1 THEN <<f1>> ELSE <<f2>>]
MCFileName == [f \in {f1, f2} |-> "name"]

ShareButton(action) == [id |-> action, action |-> action]
Visit(presses, awaits) == [presses |-> presses, awaits |-> awaits]

MCShares == {ShareButton("enable"), ShareButton("rotate"), ShareButton("disable")}

\* The share buttons; an upload beside an order or another upload; an order beside
\* the job of the URL or another order.
MCVisits ==
    {Visit({}, {}),
     Visit({ShareButton("enable"), ShareButton("rotate")}, {"project", "deck"}),
     Visit({ShareButton("rotate"), ShareButton("disable")}, {"project"}),
     Visit({u1, u2}, {"sources"}),
     Visit({u2, o1}, {"sources"}),
     Visit({u2, o1}, {"poll"}),
     Visit({o1, o2}, {"poll"})}
=============================================================================
