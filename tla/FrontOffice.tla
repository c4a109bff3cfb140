----------------------------- MODULE FrontOffice ----------------------------
(***************************************************************************)
(* What stands before people, for one run: the events a screen is fed      *)
(* (SessionEvents), the phone's way in (MobileAccess), the kiosk's screen  *)
(* (KioskScreen), what may be asked of the printer and at which price      *)
(* (PrintRules) and the administrator's browser (AdminConsole).  They keep *)
(* separate state, so a behaviour follows one of them and the run explores *)
(* them side by side.                                                      *)
(***************************************************************************)
EXTENDS SessionEvents, MobileAccess, KioskScreen, AdminConsole, PrintRules

VARIABLE side

frontOfficeVars == <<eventsVars, mobileVars, screenVars, consoleVars, rulesVars, side>>

\* The rules have one initial state where they are not followed.
FrontOfficeInit ==
  /\ side \in {"events", "mobile", "screen", "console", "rules"}
  /\ EventsInit /\ MobileInit /\ ScreenInit /\ ConsoleInit
  /\ RulesInit /\ (side # "rules" => /\ declared = CHOOSE d \in Declarations : TRUE
                                    /\ DOMAIN documents = {"a"})

FrontOfficeNext ==
  /\ UNCHANGED side
  /\ \/ side = "events" /\ EventsNext /\ UNCHANGED <<mobileVars, screenVars, consoleVars, rulesVars>>
     \/ side = "mobile" /\ MobileNext /\ UNCHANGED <<eventsVars, screenVars, consoleVars, rulesVars>>
     \/ side = "screen" /\ ScreenNext /\ UNCHANGED <<eventsVars, mobileVars, consoleVars, rulesVars>>
     \/ side = "console" /\ ConsoleNext /\ UNCHANGED <<eventsVars, mobileVars, screenVars, rulesVars>>
     \/ side = "rules" /\ RulesNext /\ UNCHANGED <<eventsVars, mobileVars, screenVars, consoleVars>>

FrontOfficeSpec == FrontOfficeInit /\ [][FrontOfficeNext]_frontOfficeVars

\* A session's first two events.
FrontOfficeStory == <<"session.created", "mobile.connected">>

\* What a device declares: a duplexer in three words, one only as a unit, Letter
\* paper alone, colour alone.
Declared(media, sides, unit, copies) ==
  [media |-> media, sides |-> sides, colors |-> {"monochrome", "color"}, duplexUnit |-> unit, maxCopies |-> copies]
FrontOfficeDeclarations ==
  {Declared({"iso_a4_210x297mm"}, {"one_sided", "two_sided_long_edge", "two_sided_short_edge"}, FALSE, 2),
   Declared({"iso_a4_210x297mm"}, {}, TRUE, 0),
   Declared({"na_letter"}, {"one_sided"}, FALSE, 9),
   [Declared({"iso_a4_210x297mm"}, {"one_sided"}, FALSE, 9) EXCEPT !.colors = {"color"}]}
\* A session of one document, and of two.
FrontOfficeFiles == {"a" :> 4, ("a" :> 4 @@ "b" :> 3)}
\* Page-range texts: singles, ranges forwards and backwards, what is refused.
Segments == {<<1>>, <<4>>} \cup {<<a, b>> : a \in {1, 2, 4}, b \in 2..4}
Refusable == {Unreadable, <<0>>, <<5>>, <<2, 5>>}
Texts ==
  {<<>>} \cup {<<s>> : s \in Segments \cup Refusable} \cup {<<s, t>> : s, t \in Segments \cup Refusable}
    \cup {<<<<4>>, s, t>> : s, t \in {<<1>>, <<2>>, <<1, 2>>, <<2, 3>>}} \cup {<<<<1>>, <<1>>, <<1>>, <<1>>>>}
\* Settings: every text; copies and sides at their limits; two documents in and out
\* of order, missing, repeated or unknown.
Choice(id, text, copies, duplex) ==
  [fileId |-> id, text |-> text, copies |-> copies, duplex |-> duplex]
AskFor(order, selections) == [order |-> order, selections |-> selections, paperSize |-> "A4"]
FrontOfficeRequests ==
  {AskFor(<<"a">>, <<Choice("a", t, 1, "SIMPLEX")>>) : t \in Texts}
  \cup {AskFor(<<"a">>, <<Choice("a", t, c, d)>>) : t \in {<<>>, <<<<2, 4>>>>}, c \in 0..3,
         d \in {"SIMPLEX", "LONG_EDGE", "SHORT_EDGE"}}
  \cup {AskFor(order, <<Choice("a", t, c, d), Choice("b", <<<<3>>>>, 1, e)>>) :
         order \in {<<"a", "b">>, <<"b", "a">>, <<"a", "a">>, <<"b", "c">>}, t \in {<<>>, <<<<1>>, <<3>>>>},
         c \in 1..2, d, e \in {"SIMPLEX", "LONG_EDGE"}}
  \cup {AskFor(<<"a", "b">>, <<Choice("a", <<>>, 1, "SIMPLEX"), Choice("a", <<>>, 1, "SIMPLEX")>>),
        AskFor(<<"a", "b">>, <<Choice("a", <<>>, 1, "SIMPLEX")>>),
        [AskFor(<<"a">>, <<Choice("a", <<>>, 1, "SIMPLEX")>>) EXCEPT !.paperSize = "A3"]}
\* Tariffs: discounts up to the whole price and surcharges, fee, minimum before and
\* after tax, two rules for one paper, no rule for it; each in every rounding.
Rule(unit, points, fee, minimum, tax, priority) ==
  [paperSize |-> "A4", unit |-> unit, duplexPoints |-> points, fee |-> fee, minimum |-> minimum,
   taxPoints |-> tax, priority |-> priority]
FrontOfficeRuleSets ==
  {[rounding |-> r, minimumApplication |-> t[1], rules |-> t[2]] :
     r \in {"HALF_UP", "HALF_EVEN", "AWAY_FROM_ZERO", "TOWARD_ZERO"},
     t \in {<<"BEFORE_TAX", <<Rule(5, -5000, 0, 0, 1250, 1)>>>>,
            <<"AFTER_TAX", <<Rule(1, -10000, 0, 3, 5000, 1)>>>>,
            <<"BEFORE_TAX", <<Rule(3, -2500, 2, 12, 500, 1), Rule(60, 5000, 1, 0, 2000, 0)>>>>,
            <<"AFTER_TAX", <<Rule(60, 5000, 1, 0, 2000, 1)>>>>,
            <<"AFTER_TAX", <<[Rule(1, 0, 0, 0, 0, 1) EXCEPT !.paperSize = "A3"]>>>>}}

FrontOfficeSymmetry == Permutations(Publishers)
=============================================================================
