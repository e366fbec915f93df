---------------------------- MODULE MCHousehold -----------------------------
(***************************************************************************)
(* The components of a household that share no state in the model, checked *)
(* in one run: each behaviour lets one of them move and the others rest in *)
(* a fixed initial state.                                                  *)
(***************************************************************************)
EXTENDS Families, LoginLimiter, Achievements, Streaks, SpecialTasks, Reminders, TLC

VARIABLE part  \* the component that moves

HouseholdInit ==
  /\ part \in {"families", "login", "achievements", "streaks", "special tasks", "reminders"}
  /\ FamiliesInit /\ LoginInit /\ AchievementsInit /\ StreaksInit /\ SpecialInit /\ RemindersInit
  /\ part # "streaks" => metric = "all_due_tasks_completed"
  /\ part # "reminders" => \A w \in Threads : sweep[w].wake = 0

OnlyIn(p) ==
  /\ part = p /\ UNCHANGED part
  /\ p # "families" => UNCHANGED familyVars
  /\ p # "login" => UNCHANGED loginVars
  /\ p # "achievements" => UNCHANGED achievementVars
  /\ p # "streaks" => UNCHANGED streakVars
  /\ p # "special tasks" => UNCHANGED specialVars
  /\ p # "reminders" => UNCHANGED remindersVars

HouseholdNext ==
  \/ OnlyIn("families") /\ FamiliesNext
  \/ OnlyIn("login") /\ LoginNext
  \/ OnlyIn("achievements") /\ AchievementsNext
  \/ OnlyIn("streaks") /\ StreaksNext
  \/ OnlyIn("special tasks") /\ SpecialNext
  \/ OnlyIn("reminders") /\ RemindersNext

HouseholdSpec == HouseholdInit /\ [][HouseholdNext]_<<part, familyVars, loginVars, achievementVars,
                                                      streakVars, specialVars, remindersVars>>

Symmetry == Permutations(Users) \union Permutations(Children) \union Permutations(Threads)

(* Every component keeps its variables within their types.                 *)
HouseholdTypeOK ==
  /\ FamiliesTypeOK /\ LoginTypeOK /\ AchievementsTypeOK
  /\ StreaksTypeOK /\ SpecialTypeOK /\ RemindersTypeOK

=============================================================================
