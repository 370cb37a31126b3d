----------------------------- MODULE MCBotcGame -----------------------------
(* Small games, each with the characters of one part of the rules. *)
EXTENDS BotcViews

Deal(role, shown, auto, nights, targets, callers) ==
  [role |-> role, shown |-> shown, auto |-> auto, nights |-> nights, nominations |-> 1,
   targets |-> targets, callers |-> callers,
   bluffs |-> {"saint", "recluse", "butler"}]
Open(role, auto, nights, targets, callers) ==
  Deal(role, role, auto, nights, targets, callers)

\* Poison, protection, and the killed ravenkeeper.
Protection == Open(<<"imp", "poisoner", "monk", "ravenkeeper", "empath">>,
                   TRUE, 3, {1, 3, 4}, {1, 2, 3})
\* The scarlet woman follows an executed imp; the undertaker hears of it.
Execution == Open(<<"imp", "scarlet_woman", "undertaker", "empath", "soldier">>,
                  FALSE, 3, {1, 2, 3}, {3, 4, 5})
\* The spy, a drunk undertaker, and the first night's information.
SpyAndDrunk == Deal(<<"imp", "spy", "washerwoman", "empath", "drunk", "chef">>,
                    <<"imp", "spy", "washerwoman", "empath", "undertaker", "chef">>,
                    TRUE, 3, {1, 4, 5}, {2, 3, 5})
\* The butler votes with its master; the fortune teller and its red herring.
ButlerAndTeller == Open(<<"imp", "poisoner", "fortune_teller", "monk", "butler", "soldier">>,
                        FALSE, 3, {1, 3}, {1, 3, 5})
\* The outsiders who mislead, and the saint nobody may execute.
Outside == Open(<<"imp", "poisoner", "fortune_teller", "empath", "chef", "recluse">>,
                TRUE, 3, {1, 3, 6}, {})
Saintly == Open(<<"imp", "poisoner", "saint", "investigator", "monk", "chef">>,
                TRUE, 3, {1, 3}, {1, 2, 4})
\* Seven players: the evil know each other, and the imp has bluffs.
Seven == Open(<<"imp", "scarlet_woman", "washerwoman", "librarian", "investigator",
                "chef", "soldier">>, TRUE, 2, {1, 2, 3}, {})
\* Two minions: the imp made by an execution makes another one in the same night.
TwoMinions == Open(<<"imp", "scarlet_woman", "poisoner", "washerwoman", "librarian",
                     "monk", "soldier", "chef", "ravenkeeper", "undertaker">>,
                   TRUE, 2, {1, 2, 3}, {1, 2, 3, 4, 5})

\* Two ballots a day: the higher one, a tie, the same hand in both.
TwoBallots == [Open(<<"imp", "scarlet_woman", "soldier", "chef", "ravenkeeper">>,
                    FALSE, 2, {3, 4, 5}, {3, 4, 5}) EXCEPT !.nominations = 2]

MCDeals == {Protection, Execution, SpyAndDrunk, ButlerAndTeller, Outside, Saintly, Seven,
            TwoMinions, TwoBallots}
LoneEmpath == {Open(<<"imp", "poisoner", "monk", "soldier", "empath">>, FALSE, 4,
                    {1, 2, 3, 4}, {})}
=============================================================================
