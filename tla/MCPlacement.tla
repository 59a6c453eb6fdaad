---------------------------- MODULE MCPlacement ----------------------------
(* Instances of Placement for TLC.                                          *)
EXTENDS Placement, TLC

CONSTANTS t1, t2, p1, p2, p3, p4, p5, g1, g2, c1, c2, b1, b2, v1, v2

Is(group, country, willing) == [group |-> group, country |-> country,
                                willing |-> willing, active |-> TRUE]

\* p4 stays in the country of p3, or in another, and then p2 is inactive; p5 is
\* alone in a group.
MCPeople == {p1 :> Is(g1, c1, TRUE)
             @@ p2 :> [Is(g1, c1, TRUE) EXCEPT !.active = c = c1] @@ p3 :> Is(g1, c1, FALSE)
             @@ p4 :> Is(g1, c, FALSE) @@ p5 :> Is(g2, c1, TRUE) : c \in {c1, c2}}
Of(S) == [NoTeam EXCEPT !.status = "forming", !.group = g1, !.members = S]
At(S, b) == [Of(S) EXCEPT !.status = "active", !.brief = b]
\* A team and people without one; two teams; a team that has a brief.
MCStart == {t1 :> Of({p1, p2}) @@ t2 :> NoTeam,
            t1 :> Of({p1, p2}) @@ t2 :> [Of({p3}) EXCEPT !.pending = {p4}],
            t1 :> At({p1}, b1) @@ t2 :> NoTeam}
MCLimits == {2}
MCWithheld == {{}, {t1}}
MCOverrides == {{}, {<<t1, b1>>}}
MCExcluded == {{}, {p3}}
MCManual == {{}, {p3, p4}}
MCSuits == {{}, {t1} \X Briefs, {<<t1, b1>>, <<t2, b1>>}}
MCVerticals == <<v1, v2>>
MCBriefsOf == v1 :> <<b1>> @@ v2 :> <<b2>>
=============================================================================
