------------------------- MODULE MCPolicyDecision --------------------------
(***************************************************************************)
(* A small instance of PolicyDecision: three files under /usr/, one       *)
(* process and a rule list shaped like the shipped policy: pattern rules   *)
(* first, then trusted-path allow rules, then the caller's default.        *)
(***************************************************************************)
EXTENDS PolicyDecision

MCLdSo == <<"/usr/", "lib64/", "ld.so">>
MCLs   == <<"/usr/", "bin/", "ls">>
MCLibc == <<"/usr/", "lib64/", "libc">>
MCFiles == {MCLdSo, MCLs, MCLibc}

\* Subject fields and object fields as rules_append leaves them.
SF(t, v) == [type |-> t, val |-> v]
OF(t, v) == [type |-> t, o |-> v]
AllObj == <<OF("ALL_OBJ", <<>>)>>

\* deny_audit perm=any pattern=ld_so : all
\* deny perm=any pattern=static uid=1 : all
\* allow perm=execute exe_dir=execdirs : dir=systemdirs
\* allow perm=open all : trust=1
MCRules ==
  << [d |-> "DENY_AUDIT", a |-> "ANY_ACC",
      s |-> <<SF("PATTERN", PATTERN_LD_SO_VAL)>>, o |-> AllObj],
     [d |-> "DENY", a |-> "ANY_ACC",
      s |-> <<SF("PATTERN", PATTERN_STATIC_VAL), SF("UID", 1)>>, o |-> AllObj],
     [d |-> "ALLOW", a |-> "EXEC_ACC",
      s |-> <<SF("EXE_DIR", Str("execdirs"))>>, o |-> <<OF("ODIR", Str("systemdirs"))>>],
     [d |-> "ALLOW", a |-> "OPEN_ACC",
      s |-> <<SF("ALL_SUBJ", 0)>>, o |-> <<OF("OBJ_TRUST", Str("1"))>>] >>

\* allow perm=any pattern=ld_so uid=0 : all
MCRulesPatternAndUid ==
  << [d |-> "ALLOW", a |-> "ANY_ACC",
      s |-> <<SF("PATTERN", PATTERN_LD_SO_VAL), SF("UID", 0)>>, o |-> AllObj] >>

\* deny all dir=untrusted
\* allow all all
MCRulesUntrustedDir ==
  << [d |-> "DENY", a |-> "OPEN_ACC",
      s |-> <<SF("ALL_SUBJ", 0)>>, o |-> <<OF("ODIR", Str("untrusted"))>>],
     [d |-> "ALLOW", a |-> "OPEN_ACC",
      s |-> <<SF("ALL_SUBJ", 0)>>, o |-> AllObj] >>

(***************************************************************************)
(* Spec 4.4: the directory value "untrusted" matches exactly when the      *)
(* object is not trusted, so under "deny all dir=untrusted" placed before  *)
(* "allow all all" no open of an untrusted file is allowed (obj_dir_test). *)
(***************************************************************************)
UntrustedOpensDenied ==
  [][phase # "idle" /\ phase' = "idle" /\ ~IsObjTrusted(ev) => last'.d = "DENY"]_vars

MCSubjAttrs == [uid : {0, 1}, trust : {0, 1}, comm : {Absent}, exe : {MCLs}]

MCFTypes == {Str("application/x-executable")}

=============================================================================
