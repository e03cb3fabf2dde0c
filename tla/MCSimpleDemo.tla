---------------------------- MODULE MCSimpleDemo ----------------------------
EXTENDS SimpleDemo

Commands == [life: 1..MaxLives, id: 1..MaxId, value: Values]

\* one command of the first life, whose late answers meet the two of the second
FewChoices == <<<<{"positive", "zero"}, {}>>, <<{"positive"}, {"zero"}>>>>
=============================================================================
