----------------------------- MODULE MCSampling -----------------------------
\* Answers of every class that the breakers tell apart, a 429 with fatal words among
\* them; a policy of a few units and samples.
EXTENDS Sampling

Plain == [success |-> TRUE, status |-> 0, words |-> {}, slow |-> FALSE, crawl |-> FALSE,
          timeout |-> FALSE]
SomeAnswers ==
  {Plain, [Plain EXCEPT !.slow = TRUE, !.crawl = TRUE],
   [Plain EXCEPT !.success = FALSE, !.status = 502],
   [Plain EXCEPT !.success = FALSE, !.status = 429, !.words = {"quota", "fatal"}],
   [Plain EXCEPT !.success = FALSE, !.status = 400, !.words = {"auth", "fatal", "quota"}]}
ShortPolicy ==
  [score |-> [e \in Events |-> CASE e = "perfect" -> 100 [] e = "slow" -> 65 [] e = "unknown" -> 40
                                 [] e = "gateway" -> 25 [] e = "quota" -> 15
                                 [] e = "probe_fail" -> 10 [] e = "fatal" -> 0],
   shortWindow |-> 3, longWindow |-> 3, latestWeight |-> 50, shortRatio |-> 70,
   gatewayCodes |-> {502}, instantCodes |-> {},
   httpWindow |-> 2, httpFailures |-> 2, httpBelow |-> 60, httpDegradeOnly |-> FALSE,
   slowWindow |-> 2, slowTimes |-> 2, slowDegradeOnly |-> FALSE,
   target |-> 75, successes |-> 2, hold |-> 1, cooldown |-> 1, recoverEvery |-> 1,
   probeEvery |-> 2, fresh |-> 1, refresh |-> 1, lookback |-> 1, keep |-> 3]
\* The recovery asks for more successes than samples are looked at.
NarrowPolicy == [ShortPolicy EXCEPT !.successes = 4]
SomeSwitches ==
  {[probe |-> FALSE, recovery |-> TRUE, traffic |-> FALSE, skip |-> FALSE],
   [probe |-> TRUE, recovery |-> TRUE, traffic |-> TRUE, skip |-> TRUE]}
=============================================================================
