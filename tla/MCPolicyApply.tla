---------------------------- MODULE MCPolicyApply ----------------------------
EXTENDS PolicyApply, Sequences

CONSTANTS p1, p2

Policy(u, f) == [uses |-> u, flaw |-> f]

Sound == {Policy({p1}, "none"), Policy({p1, p2}, "output")}

Flawed == {Policy({p1}, "ast"), Policy({p1}, "config"), Policy({p1}, "render"),
           Policy({}, "early")}

\* p2 is a fetch provider.  The second policy is flawed, or makes p1 stop; with
\* the third both providers may start again.
KindsAll == <<Sound, Flawed \cup {Policy({p2}, "none")}, Sound>>

KindsTwo == <<Sound, Sound>>

\* Fewer, for more changes.
KindsFew == <<{Policy({p1, p2}, "output")},
              {Policy({p2}, "none"), Policy({p2}, "config"), Policy({}, "ast")},
              {Policy({p1}, "none"), Policy({p1, p2}, "output")}>>

=============================================================================
