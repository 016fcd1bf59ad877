---------------------------- MODULE MCPackRegistry ----------------------------
(***************************************************************************)
(* Instances of PackRegistry: the two built-in packs with a check or two,  *)
(* and installed packs that behave in every way a pack has been seen to:   *)
(* well, raising halfway, for another API version, declaring a check       *)
(* before the pack, under another name than its entry point's, with a      *)
(* check of that name in lightsail, and importing one another.             *)
(***************************************************************************)
EXTENDS PackRegistry, TLC

MCBody ==
     "core" :> <<RegisterPack("core", TRUE), DeclareCheck("unattached-ebs")>>
  @@ "lightsail" :> <<RegisterPack("lightsail", TRUE), DeclareCheck("lightsail-unattached-disk")>>
  @@ "good" :> <<RegisterPack("good", TRUE), DeclareCheck("good-check")>>
  @@ "broken" :> <<RegisterPack("broken", TRUE), DeclareCheck("broken-check"), RaiseError>>
  @@ "future" :> <<RegisterPack("future", FALSE), DeclareCheck("future-check")>>
  @@ "late" :> <<DeclareCheck("late-check"), RegisterPack("late", TRUE)>>
  @@ "misnamed" :> <<RegisterPack("another name", TRUE), DeclareCheck("misnamed-check")>>
  @@ "clash" :> <<RegisterPack("clash", TRUE), ImportModule("good"),
                  DeclareCheck("lightsail-unattached-disk")>>
  @@ "one" :> <<ImportModule("other"), RegisterPack("one", TRUE), DeclareCheck("one-check")>>
  @@ "other" :> <<ImportModule("one"), RegisterPack("other", TRUE)>>
  @@ "needy" :> <<ImportModule("broken"), RegisterPack("needy", TRUE), DeclareCheck("needy-check")>>

MCModule == DOMAIN MCBody
Named(name) == [name |-> name, module |-> name]
MCBuiltins == <<Named("core"), Named("lightsail")>>
MCInstallations ==
  {<<Named("good"), Named("broken")>>, <<Named("broken"), Named("future"), Named("late")>>,
   <<Named("misnamed"), Named("good")>>, <<Named("clash"), Named("good")>>,
   <<Named("one"), Named("other"), Named("good")>>, <<Named("needy"), Named("broken")>>}
MCDisablings == {{}, {"core"}, {"lightsail"}, {"good", "one"}}
MCImportable == {"core", "lightsail"}

\* The installed packs of these instances keep off the built-in ones' names.
ASSUME MCKeptApart == NamesApart

\* All but the two that import each other fare on their own.
ASSUME MCOnTheirOwn ==
  \A s \in MCInstallations : OnTheirOwn(MCBuiltins \o s) <=> Named("one") \notin Elements(s)

NoneImportable == {}
OnlyClash == {<<Named("clash"), Named("good")>>}
OnlyGood == {<<Named("good")>>}
WithoutLightsail == {{}, {"lightsail"}}
===============================================================================
