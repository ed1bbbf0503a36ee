---------------------------- MODULE MCRuleStore -----------------------------
(***************************************************************************)
(* A small instance of RuleStore: two lnode addresses and lines of up to   *)
(* three tokens, enough to load two rules, reject a line between them,     *)
(* strip the audit bit, walk and clear.                                    *)
(***************************************************************************)
EXTENDS RuleStore, MCRuleParser

\* Two decisions (one with the AUDIT bit), a subject, "all" (which fills
\* either side) and a token that makes nv_split fail.
MCStoreTokens ==
  {T("allow"), T("deny_audit"), P("exe", "/usr/bin/ls"), T("all"), T("junk")}

\* A rejected line that holds a string field.
MCLeakTokens == {T("allow"), P("exe", "/usr/bin/ls"), T("junk")}
=============================================================================
