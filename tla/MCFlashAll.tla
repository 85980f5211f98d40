----------------------------- MODULE MCFlashAll -----------------------------
(* Instances of FlashAll for TLC. *)
EXTENDS FlashAll

CONSTANTS ours, theirs

TwoPhones == {ours, theirs}

Full == {"boot", "system", "vendor", "system_other", "super_empty", "android-info"}
\* All of it; vendor.img demanded and missing; no system.img; sparse images.
FullImages ==
    {Full, (Full \ {"vendor", "system_other"}) \cup {"partition-exists"},
     Full \ {"system", "android-info", "super_empty"}, Full \cup {"sparse"}}
OneSource == {Full}
Dynamic == {"system", "vendor"}

Line(task) == [ifWipe |-> FALSE, task |-> task]

\* fastboot-info.txt without and with a layout for super.
PlainScript == <<Line(Do("fastbootd")), Line(Image("boot", "boot", FALSE)), Line(Do("fastbootd")),
                 Line(Image("system", "system", FALSE)), Line(Image("vendor", "vendor", TRUE)),
                 [ifWipe |-> TRUE, task |-> Do("erase")]>>
SuperScript == <<Line(Image("boot", "boot", FALSE)), Line(Do("super")),
                 Line(Image("system", "system", FALSE))>>

\* A script that leaves fastboot, and one that cannot be parsed for a wipe.
AwayScript == <<Line(Do("erase")), Line(Image("boot", "boot", FALSE)), Line(RebootLine("bootloader")),
                Line(Do("erase")), Line(RebootLine("nowhere")), [ifWipe |-> TRUE, task |-> Do("malformed")]>>

NoScripts == {<<>>}
SafeScripts == {<<>>, PlainScript, AwayScript}
SuperScripts == {SuperScript}

Choice(wipe, skipSecondary, slot) ==
    [wipe |-> wipe, skipSecondary |-> skipSecondary, lock |-> TRUE, force |-> FALSE, slot |-> slot]
SomeOptions == {Choice(FALSE, FALSE, ""), Choice(TRUE, TRUE, ""), Choice(FALSE, FALSE, "b"),
                Choice(TRUE, FALSE, "b"), [Choice(FALSE, FALSE, "all") EXCEPT !.force = TRUE, !.lock = FALSE]}
OneOption == [wipe : {FALSE}, skipSecondary : {TRUE}, lock : {FALSE}, force : {FALSE}, slot : {""}]

Start(mode, active, locked) == [mode |-> mode, active |-> active, locked |-> locked]
SomeStarts == {Start("bootloader", "a", TRUE), Start("bootloader", "b", FALSE),
               Start("android", "a", FALSE)}
OneStart == {Start("bootloader", "a", FALSE)}
=============================================================================
